---- MODULE Spec2Model ----
(***************************************************************************)
(* ISPL: the context-completeness loop of the LangGraph workflow           *)
(* (router -> search -> judge <-> expand -> answer -> END) and the chunk   *)
(* expansion service it drives.                                            *)
(*                                                                         *)
(* Text is abstracted as follows.  The content of a stored chunk is one    *)
(* atom, named by its chunk id; the content of a search result is the      *)
(* sequence of atoms that "\n\n".join produced.  A stored chunk carries    *)
(* the features of its text the code inspects: its token count, how its    *)
(* first line starts (plain text, a section header, a table row) and       *)
(* whether it contains a '|'.                                              *)
(***************************************************************************)
EXTENDS Integers, Sequences, FiniteSets, TLC

\* ---------------------------------------------------------------- bounds
Doc1Size == 3        \* chunks of document 1 (document 2 has one chunk)
MaxResults == 2      \* length of the result list the search step returns
MaxResultsX == 3     \* length of the result list in the expansion-only runs
MaxClauses == 2      \* clause numbers an answer can cite
MaxHits == 3         \* length of a vector or keyword result list
MaxLimit == 2        \* the limit argument of hybrid_search
MaxScore == 3        \* keywords of one category that occur in a query
MaxKeys == 3          \* distinct keys the cache is called with
MaxCacheSize == 3     \* the max_size a cache is built with
MaxTicks == 3         \* times the clock advances by half a TTL
NumRequests == 2      \* concurrent calls of the embedding services
MaxBatch == 2         \* texts of a create_embeddings_batch call
MaxCallers == 6       \* callers inside _create_embedding_with_retry at once

\* ------------------------------------------------------ program constants
MAX_EXPANSION_COUNT == 3
TOKEN_CEILING == 10000
EXPAND_MAX_TOKENS == 15000
SEARCH_MAX_TOKENS == 20000
ADJACENT_LIMIT == 2
SEP_TOKENS == 1
MAX_ATTEMPTS == 3
RRF_K == 60
DEFAULT_MAX_SIZE == 10000   \* MemoryCache.__init__(max_size)
CACHE_TTL == 3600           \* settings.CACHE_TTL
SEM_PERMITS == 5            \* asyncio.Semaphore(5) of an EmbeddingService
RETRY_ATTEMPTS == 3         \* tenacity.stop_after_attempt(3)

VARIABLES
    store,               \* chunk store: chunk id -> features of its text
    mode,                \* "flow": graph run; "expand": expansion-only run
    node,                \* the graph node about to run
    query,               \* kind of the user query
    search_results,      \* state["search_results"]
    context_sufficient,  \* state["context_sufficient"]: "none","true","false"
    chunks_to_expand,    \* state["chunks_to_expand"]
    expanded_chunks,     \* state["expanded_chunks"]
    expansion_count,     \* state["expansion_count"]
    next_agent,          \* state["next_agent"]
    error,               \* state["error"]
    final_answer,        \* state["final_answer"] (kind of answer)
    task_results,        \* state["task_results"]: agent key -> summary
    llm_calls,           \* sufficiency-check LLM calls made in this request
    judge_visits,        \* judge passes of this request
    expand_visits,       \* expander passes of this request
    llm_check,           \* the sufficiency check of the judge pass that has
                         \* just run: class of the reply, and the result
    xin,                 \* input list of the last expand_search_results call
    xreq,                \* chunks_to_expand of the last expand_search_results call
    clause_db,           \* document_chunks.clause_number: clause number ->
                         \* "active", "inactive" (only in documents that are
                         \* not active) or "absent"
    pc,                  \* position of the request that runs step by step
    attempt,             \* generate_answer: the loop variable
    answer,              \* generate_answer: the answer of this attempt
    validation,          \* generate_answer: the report of this attempt
    sessions,            \* database sessions that are open
    gen_calls,           \* answer-generation LLM calls of this request
    vin,                 \* the last validate call: what its hallucination
                         \* LLM call and its database query did
    search_calls,        \* hybrid searches run in this request
    answer_calls,        \* LLM calls of the answer step of this request:
                         \* generation calls and hallucination checks
    hin,                 \* arguments of the hybrid_search call, and what its
                         \* vector and keyword searches do
    hout,                \* what the hybrid_search call returned
    search_log,          \* search-log entries written during the call
    scores,              \* classify_intent: keywords of each category that
                         \* occur in the query
    intent,              \* classify_intent: the intent returned
    first_structure,     \* whether step 1 of judge, the structure pass, ran
                         \* on the first judge pass of the request and
                         \* found a chunk to expand
    cache,               \* MemoryCache._cache: the entries in the order of
                         \* the OrderedDict, least recently used first
    max_size,            \* MemoryCache._max_size
    now,                 \* time.time()
    last_op,             \* the last call of the cache, what it returned and
                         \* the entries the cache held before it
    requests,            \* the calls of the embedding services under way
    api_log,             \* the embedding API calls made so far
    in_flight,           \* per EmbeddingService: the API calls in flight
    waiting              \* per EmbeddingService: the callers waiting for
                         \* its semaphore

vars == <<store, mode, node, query, search_results, context_sufficient,
          chunks_to_expand, expanded_chunks, expansion_count, next_agent,
          error, final_answer, task_results, llm_calls, judge_visits,
          expand_visits, llm_check, xin, xreq, clause_db, pc, attempt,
          answer, validation, sessions, gen_calls, vin, search_calls,
          answer_calls, hin, hout, search_log, scores, intent,
          first_structure, cache, max_size, now, last_op, requests, api_log,
          in_flight, waiting>>

\* the variables of the cache and of the embedding services
evars == <<cache, max_size, now, last_op, requests, api_log, in_flight,
           waiting>>

\* the variables of the calls of single services
svars == <<hin, hout, search_log, scores, intent>>

\* the counters of the external calls of a graph run, and the record of
\* its first judge pass
cvars == <<search_calls, answer_calls, first_structure, evars>>

\* the variables of the requests that run step by step
avars == <<clause_db, pc, attempt, answer, validation, sessions, gen_calls,
           vin, svars>>

\* ------------------------------------------------------------ chunk store
ChunkIds == 1..(Doc1Size + 1)

document_id(c) == IF c <= Doc1Size THEN 1 ELSE 2

chunk_index(c) == IF c <= Doc1Size THEN c - 1 ELSE 0

\* Features of a stored chunk's text.
Plain(t) == [tok |-> t, start |-> "plain", pipe |-> FALSE]
Header(t) == [tok |-> t, start |-> "header", pipe |-> FALSE]
TableRow(t) == [tok |-> t, start |-> "table", pipe |-> TRUE]

FlowKinds == {Plain(2000), Plain(5000)}
ExpandKinds == {Plain(5000), Plain(10000), Header(5000), TableRow(2000)}

\* The stores of the graph runs: document 1 varies, document 2 is one
\* plain chunk.
StoreOf(f) == [c \in ChunkIds |-> IF c <= Doc1Size THEN f[c] ELSE Plain(2000)]

FlowStores == {StoreOf(f) : f \in [1..Doc1Size -> FlowKinds]}

\* The stores of the expansion-only runs.
ExpandStores == {StoreOf(f) : f \in [1..Doc1Size -> ExpandKinds]}

\* ------------------------------------------------------------ sequences
RECURSIVE SumSeq(_)
SumSeq(s) == IF s = <<>> THEN 0 ELSE Head(s) + SumSeq(Tail(s))

Range(s) == {s[i] : i \in DOMAIN s}

NoDup(s) == \A i, j \in DOMAIN s : i # j => s[i] # s[j]

SeqsUpTo(S, n) == UNION {[1..k -> S] : k \in 0..n}

\* len(self.encoding.encode(content)) for a content of joined atoms
Tokens(content) ==
    IF content = <<>> THEN 0
    ELSE SumSeq([i \in DOMAIN content |-> store[content[i]].tok])
         + SEP_TOKENS * (Len(content) - 1)

\* A search result as the search step returns it (to_dict of a stored chunk)
RawResult(c) ==
    [chunk_id |-> c, content |-> <<c>>, expanded |-> FALSE,
     included_chunks |-> <<>>, total_tokens |-> 0, truncated |-> FALSE]

\* ------------------------------------------ services/chunk_expansion_service
\* get_adjacent_chunks: up to `limit` neighbours on each requested side,
\* both lists in ascending chunk_index order; empty lists when the query
\* fails (dbok = FALSE).
AdjPrev(c, limit) ==
    LET cand == {d \in ChunkIds : document_id(d) = document_id(c)
                                  /\ chunk_index(d) < chunk_index(c)
                                  /\ chunk_index(d) >= chunk_index(c) - limit}
        n == Cardinality(cand)
    IN  [i \in 1..n |-> CHOOSE d \in cand :
                          Cardinality({e \in cand : chunk_index(e) < chunk_index(d)}) = i - 1]

AdjNext(c, limit) ==
    LET cand == {d \in ChunkIds : document_id(d) = document_id(c)
                                  /\ chunk_index(d) > chunk_index(c)
                                  /\ chunk_index(d) <= chunk_index(c) + limit}
        n == Cardinality(cand)
    IN  [i \in 1..n |-> CHOOSE d \in cand :
                          Cardinality({e \in cand : chunk_index(e) < chunk_index(d)}) = i - 1]

get_adjacent_chunks(c, direction, limit, dbok) ==
    IF ~dbok THEN [prev |-> <<>>, next |-> <<>>]
    ELSE [prev |-> IF direction \in {"prev", "both"} THEN AdjPrev(c, limit) ELSE <<>>,
          next |-> IF direction \in {"next", "both"} THEN AdjNext(c, limit) ELSE <<>>]

\* _check_new_section_start(content, primary_content) for a stored chunk c
check_new_section_start_tables(c, primary_content) ==
    /\ store[c].start = "table"
    /\ ~(\E i \in DOMAIN primary_content : store[primary_content[i]].pipe)

check_new_section_start(c, primary_content) ==
    IF store[c].start = "table"
    THEN ~(\E i \in DOMAIN primary_content : store[primary_content[i]].pipe)
    ELSE store[c].start = "header"

\* The while loop of merge_chunks.  cd is chunks_data (prev chunks, the
\* primary, next chunks), st the loop variables; brk records a `break`.
RECURSIVE MergeLoop(_, _, _, _)
MergeLoop(cd, primary_content, max_tokens, st) ==
    IF ~((st.prev_idx >= 1 \/ st.next_idx <= Len(cd)) /\ ~st.truncated)
    THEN st
    ELSE
      LET afterNext ==
            IF st.next_idx <= Len(cd)
            THEN LET d == cd[st.next_idx] IN
                 IF check_new_section_start(d.chunk_id, primary_content)
                 THEN [st EXCEPT !.brk = TRUE]
                 ELSE IF st.total_tokens + d.tokens <= max_tokens
                 THEN [st EXCEPT !.merged_parts = @ \o d.content,
                                 !.included_chunks = Append(@, d.chunk_id),
                                 !.total_tokens = @ + d.tokens,
                                 !.next_idx = @ + 1]
                 ELSE [st EXCEPT !.truncated = TRUE, !.brk = TRUE]
            ELSE st
      IN
      IF afterNext.brk THEN afterNext
      ELSE
        LET afterPrev ==
              IF afterNext.prev_idx >= 1
              THEN LET d == cd[afterNext.prev_idx] IN
                   IF afterNext.total_tokens + d.tokens <= max_tokens
                   THEN [afterNext EXCEPT !.merged_parts = d.content \o @,
                                          !.included_chunks = <<d.chunk_id>> \o @,
                                          !.total_tokens = @ + d.tokens,
                                          !.prev_idx = @ - 1]
                   ELSE [afterNext EXCEPT !.truncated = TRUE, !.brk = TRUE]
              ELSE afterNext
        IN IF afterPrev.brk THEN afterPrev
           ELSE MergeLoop(cd, primary_content, max_tokens, afterPrev)

StoredData(c) == [chunk_id |-> c, content |-> <<c>>, tokens |-> store[c].tok]

merge_chunks(primary, prev_chunks, next_chunks, max_tokens) ==
    LET primary_tokens == Tokens(primary.content)
        cd == [i \in DOMAIN prev_chunks |-> StoredData(prev_chunks[i])]
              \o <<[chunk_id |-> primary.chunk_id, content |-> primary.content,
                    tokens |-> primary_tokens]>>
              \o [i \in DOMAIN next_chunks |-> StoredData(next_chunks[i])]
        primary_idx == Len(prev_chunks) + 1
        st0 == [merged_parts |-> primary.content,
                included_chunks |-> <<primary.chunk_id>>,
                total_tokens |-> primary_tokens,
                truncated |-> primary_tokens > max_tokens,
                prev_idx |-> primary_idx - 1,
                next_idx |-> primary_idx + 1,
                brk |-> FALSE]
        st == MergeLoop(cd, primary.content, max_tokens, st0)
    IN  [merged_content |-> st.merged_parts,
         included_chunks |-> st.included_chunks,
         total_tokens |-> st.total_tokens,
         truncated |-> st.truncated]

\* expand_map: chunk_id -> direction, a later entry overwriting an earlier
InExpandMap(cte, c) == \E i \in DOMAIN cte : cte[i].chunk_id = c

ExpandDirection(cte, c) ==
    LET last == CHOOSE i \in DOMAIN cte :
                   /\ cte[i].chunk_id = c
                   /\ \A j \in DOMAIN cte : cte[j].chunk_id = c => j <= i
    IN  cte[last].direction

\* One iteration of the loop of expand_search_results over search_results.
\* acc = [out, total_tokens, stop]; stop records the `break`.
ExpandOne(result, cte, max_tokens, dbdown, acc) ==
    IF InExpandMap(cte, result.chunk_id)
    THEN
      IF acc.total_tokens >= max_tokens
      THEN [acc EXCEPT !.out = Append(@, result)]
      ELSE
        LET adjacent == get_adjacent_chunks(result.chunk_id,
                            ExpandDirection(cte, result.chunk_id),
                            ADJACENT_LIMIT, result.chunk_id \notin dbdown)
            merged == merge_chunks(result, adjacent.prev, adjacent.next,
                                   max_tokens - acc.total_tokens)
        IN
        IF acc.total_tokens + merged.total_tokens > max_tokens
        THEN LET chunk_tokens == Tokens(result.content) IN
             IF acc.total_tokens + chunk_tokens <= max_tokens
             THEN [acc EXCEPT !.out = Append(@, result),
                              !.total_tokens = @ + chunk_tokens]
             ELSE acc
        ELSE [acc EXCEPT
                !.out = Append(@, [chunk_id |-> result.chunk_id,
                                   content |-> merged.merged_content,
                                   expanded |-> TRUE,
                                   included_chunks |-> merged.included_chunks,
                                   total_tokens |-> merged.total_tokens,
                                   truncated |-> merged.truncated]),
                !.total_tokens = @ + merged.total_tokens]
    ELSE
      LET chunk_tokens == Tokens(result.content) IN
      IF acc.total_tokens + chunk_tokens > max_tokens
      THEN [acc EXCEPT !.stop = TRUE]
      ELSE [acc EXCEPT !.out = Append(@, result),
                       !.total_tokens = @ + chunk_tokens]

RECURSIVE ExpandLoop(_, _, _, _, _, _)
ExpandLoop(results, i, cte, max_tokens, dbdown, acc) ==
    IF i > Len(results) \/ acc.stop THEN acc
    ELSE ExpandLoop(results, i + 1, cte, max_tokens, dbdown,
                    ExpandOne(results[i], cte, max_tokens, dbdown, acc))

expand_search_results(results, cte, max_tokens, dbdown) ==
    ExpandLoop(results, 1, cte, max_tokens, dbdown,
               [out |-> <<>>, total_tokens |-> 0, stop |-> FALSE]).out

\* ------------------------------------------------------- agents/state.py
\* merge_dicts, the reducer of task_results
merge_dicts_replace(left, right) == right

merge_dicts(left, right) ==
    [k \in DOMAIN left \cup DOMAIN right |->
        IF k \in DOMAIN right THEN right[k] ELSE left[k]]

NoResults == [k \in {} |-> 0]

\* ------------------------------------- agents/context_judgement_agent.py
\* A reply of the sufficiency LLM.  kind "raise": the API call (or reading
\* the reply) raised.  Otherwise the reply is text, a sequence of lines; a
\* line records which marker phrases occur in it, the numbers after its
\* first ':' (re.findall(r'\d+')), and whether the text after its first ':'
\* is exactly the word for "none".  The marker phrases are written in
\* ASCII: SUFFICIENT and INSUFFICIENT are the two verdict words, the second
\* of which contains the first as a substring; EXPAND_NEEDED is the label
\* of the chunk line.
Line(has, nums, none) == [has |-> has, nums |-> nums, none |-> none]

RaiseReply == [kind |-> "raise", lines |-> <<>>]
TextReply(lines) == [kind |-> "text", lines |-> lines]

VerdictLine(v) == Line({v}, <<1>>, FALSE)
ExpandLine(nums) == Line({"EXPAND_NEEDED"}, nums, FALSE)
ExpandNone == Line({"EXPAND_NEEDED"}, <<>>, TRUE)
ProseLine == Line({}, <<>>, FALSE)

Replies ==
    { RaiseReply,
      TextReply(<<VerdictLine("SUFFICIENT"), ExpandNone>>),
      TextReply(<<VerdictLine("INSUFFICIENT"), ExpandNone>>),
      TextReply(<<VerdictLine("INSUFFICIENT"), ExpandLine(<<1>>)>>),
      TextReply(<<VerdictLine("INSUFFICIENT"), ExpandLine(<<2, 1>>)>>),
      TextReply(<<ProseLine>>),
      TextReply(<<Line({"chunk"}, <<1>>, FALSE)>>),
      TextReply(<<ProseLine, Line({"INSUFFICIENT"}, <<>>, FALSE)>>) }

\* `phrase in line`: the INSUFFICIENT word contains the SUFFICIENT word
LineContains(line, phrase) ==
    \/ phrase \in line.has
    \/ phrase = "SUFFICIENT" /\ "INSUFFICIENT" \in line.has

\* The reply does not carry the verdict line the prompt asks for.
Malformed(reply) ==
    /\ reply.kind = "text"
    /\ ~LineContains(reply.lines[1], "SUFFICIENT")

\* chunk_ids[int(num) - 1] with Python's negative index for num = 0
PyIndex(ids, num) == IF num = 0 THEN ids[Len(ids)] ELSE ids[num]

ParseChunksToExpand(lines, chunk_ids) ==
    LET hits == {i \in DOMAIN lines :
                    LineContains(lines[i], "EXPAND_NEEDED") \/ LineContains(lines[i], "chunk")}
    IN  IF hits = {} THEN <<>>
        ELSE LET first == CHOOSE i \in hits : \A j \in hits : i <= j
                 line == lines[first]
             IN  IF line.none THEN <<>>
                 ELSE LET ok == SelectSeq(line.nums, LAMBDA n : n <= Len(chunk_ids))
                      IN  [i \in DOMAIN ok |-> PyIndex(chunk_ids, ok[i])]

llm_sufficiency_check(reply, results) ==
    IF reply.kind = "raise"
    THEN [is_sufficient |-> TRUE, chunks_to_expand |-> <<>>, response |-> reply]
    ELSE LET chunk_ids == [i \in DOMAIN results |-> results[i].chunk_id]
             lines == reply.lines
         IN  [is_sufficient |->
                 /\ \E i \in DOMAIN lines : LineContains(lines[i], "SUFFICIENT")
                 /\ ~LineContains(lines[1], "INSUFFICIENT"),
              chunks_to_expand |-> ParseChunksToExpand(lines, chunk_ids),
              response |-> reply]

\* check_completeness_with_structure + should_expand_chunk for one result.
\* a = [start_truncated, end_truncated, relevant]: what the analyzer finds in
\* the text, and whether the text passes the keyword relevance gate.
Analysis(s, e, r) == [start_truncated |-> s, end_truncated |-> e, relevant |-> r]

Analyses == {Analysis(FALSE, FALSE, TRUE), Analysis(TRUE, FALSE, TRUE),
             Analysis(FALSE, TRUE, TRUE), Analysis(TRUE, TRUE, TRUE),
             Analysis(FALSE, TRUE, FALSE)}

CompletenessDirection(a) ==
    IF a.start_truncated /\ a.end_truncated THEN "both"
    ELSE IF a.start_truncated THEN "prev"
    ELSE IF a.end_truncated THEN "next"
    ELSE "none"

should_expand_chunk(a) ==
    /\ a.start_truncated \/ a.end_truncated
    /\ a.relevant

\* front and back issues both present: "both" is adjusted to "next"
AdjustedDirection(a) ==
    IF CompletenessDirection(a) = "both" THEN "next" ELSE CompletenessDirection(a)

\* Step 1 of judge: the structure pass over the not yet expanded results
RECURSIVE StructurePass(_, _, _)
StructurePass(results, analysis, i) ==
    IF i > Len(results) THEN <<>>
    ELSE LET rest == StructurePass(results, analysis, i + 1) IN
         IF ~results[i].expanded /\ should_expand_chunk(analysis[i])
         THEN <<[chunk_id |-> results[i].chunk_id,
                 direction |-> AdjustedDirection(analysis[i])]>> \o rest
         ELSE rest

\* First pass: the chunks the LLM names are added with direction "both"
RECURSIVE AddLLMChunks(_, _)
AddLLMChunks(needing, ids) ==
    IF ids = <<>> THEN needing
    ELSE AddLLMChunks(
            IF \E i \in DOMAIN needing : needing[i].chunk_id = Head(ids)
            THEN needing
            ELSE Append(needing, [chunk_id |-> Head(ids), direction |-> "both"]),
            Tail(ids))

CurrentTokens(results) ==
    SumSeq([i \in DOMAIN results |-> Tokens(results[i].content)])

FirstN(s, n) == IF Len(s) <= n THEN s ELSE SubSeq(s, 1, n)

\* route_after_judgement
route_after_judgement(cs) ==
    IF cs = "true" THEN "answer_agent" ELSE "chunk_expansion_agent"

\* if expansion_count >= self.MAX_EXPANSION_COUNT
MaxExpansionReached_late(count) == count > MAX_EXPANSION_COUNT

MaxExpansionReached(count) == count >= MAX_EXPANSION_COUNT

\* if expansion_count >= 1 and current_tokens > 10000
OverTokenCeiling_budget(count, tokens) == count >= 1 /\ tokens > EXPAND_MAX_TOKENS

OverTokenCeiling(count, tokens) == count >= 1 /\ tokens > TOKEN_CEILING

\* The class of a reply, and what llm_sufficiency_check made of it
ReplyClass(reply) ==
    IF reply.kind = "raise" THEN "raise"
    ELSE IF Malformed(reply) THEN "malformed" ELSE "wellformed"

LLMCheck(reply, results) ==
    LET c == llm_sufficiency_check(reply, results)
    IN  [class |-> ReplyClass(reply), is_sufficient |-> c.is_sufficient,
         chunks_to_expand |-> c.chunks_to_expand]

NoLLMCheck_asked ==
    [class |-> "raise", is_sufficient |-> TRUE, chunks_to_expand |-> <<>>]

NoLLMCheck == [class |-> "none", is_sufficient |-> TRUE, chunks_to_expand |-> <<>>]

\* The update dictionary judge returns, applied to the state, followed by
\* the conditional edge out of the judge node.
Judged(sufficient, cte, reason, llm, structure) ==
    /\ context_sufficient' = (IF sufficient THEN "true" ELSE "false")
    /\ chunks_to_expand' = cte
    /\ task_results' = merge_dicts(task_results,
            [k \in {"context_judgement"} |->
                [sufficient |-> sufficient, reason |-> reason]])
    /\ next_agent' = (IF sufficient THEN "answer_agent" ELSE "chunk_expansion_agent")
    /\ llm_check' = llm
    /\ llm_calls' = llm_calls + (IF llm.class = "none" THEN 0 ELSE 1)
    /\ node' = route_after_judgement(context_sufficient')
    /\ judge_visits' = judge_visits + 1
    /\ first_structure' = structure
    /\ UNCHANGED <<store, mode, query, search_results, expanded_chunks,
                   expansion_count, error, final_answer, expand_visits, xin,
                   xreq, search_calls, answer_calls, evars, avars>>

LaterPass_all(llm) ==
    Judged(llm.is_sufficient,
           IF llm.is_sufficient THEN <<>>
           ELSE [i \in DOMAIN llm.chunks_to_expand |->
                    [chunk_id |-> llm.chunks_to_expand[i], direction |-> "both"]],
           "llm", llm, first_structure)

\* Second and later passes: the LLM check alone, at most one chunk, "next"
LaterPass(llm) ==
    Judged(llm.is_sufficient,
           IF llm.is_sufficient THEN <<>>
           ELSE LET one == FirstN(llm.chunks_to_expand, 1)
                IN  [i \in DOMAIN one |-> [chunk_id |-> one[i], direction |-> "next"]],
           "llm", llm, first_structure)

\* First pass: structure pass plus LLM check
FirstPassSufficient_structure_only(needing, llm) == needing = <<>>

\* is_sufficient = len(chunks_needing_expansion) == 0
\*                 and llm_check["is_sufficient"]
FirstPassSufficient(needing, llm) == needing = <<>> /\ llm.is_sufficient

FirstPass(analysis, llm) ==
    LET structure == StructurePass(search_results, analysis, 1)
        needing == AddLLMChunks(structure, llm.chunks_to_expand)
        is_sufficient == FirstPassSufficient(needing, llm)
    IN  Judged(is_sufficient, IF is_sufficient THEN <<>> ELSE needing,
               "first_pass", llm,
               IF judge_visits = 0
               THEN [ran |-> TRUE, found |-> structure # <<>>]
               ELSE first_structure)

Judge ==
    /\ mode = "flow"
    /\ node = "context_judgement_agent"
    /\ \/ /\ search_results = <<>>
          /\ Judged(TRUE, <<>>, "no_results", NoLLMCheck, first_structure)
       \/ /\ search_results # <<>>
          /\ MaxExpansionReached(expansion_count)
          /\ Judged(TRUE, <<>>, "max_expansion", NoLLMCheck, first_structure)
       \/ /\ search_results # <<>>
          /\ ~MaxExpansionReached(expansion_count)
          /\ OverTokenCeiling(expansion_count, CurrentTokens(search_results))
          /\ Judged(TRUE, <<>>, "token_limit", NoLLMCheck, first_structure)
       \/ /\ search_results # <<>>
          /\ ~MaxExpansionReached(expansion_count)
          /\ ~OverTokenCeiling(expansion_count, CurrentTokens(search_results))
          /\ expansion_count >= 1
          /\ \E reply \in Replies : LaterPass(LLMCheck(reply, search_results))
       \/ /\ search_results # <<>>
          /\ ~MaxExpansionReached(expansion_count)
          /\ ~OverTokenCeiling(expansion_count, CurrentTokens(search_results))
          /\ expansion_count < 1
          /\ \E reply \in Replies, analysis \in [DOMAIN search_results -> Analyses] :
                FirstPass(analysis, LLMCheck(reply, search_results))

\* ------------------------------------------ services/answer_validator.py
\* A score is a fraction of ONE: the score 1.0 is ONE, 0.5 is HALF.  ONE is
\* divisible by every count of clause numbers and keywords that occurs, so
\* that the quotients of the code are exact.
ONE == 60
HALF == ONE \div 2

\* AnswerValidator.WEIGHTS and AnswerValidator.__init__(threshold), in tenths
WEIGHTS == [hallucination |-> 4, context |-> 3, clause |-> 2, format |-> 1]
threshold == 7

ClauseNumbers == 1..MaxClauses

\* What the validator reads in an answer: the two section titles, a
\* "[reference N]" mark, the clause numbers it cites (_extract_clause_numbers
\* removes duplicates), its keywords and how many of them occur in the
\* contents of the search results.
Answers ==
    {[structure |-> s, references |-> r, clauses |-> c,
      keywords |-> k[1], matched |-> k[2]] :
        s \in BOOLEAN, r \in BOOLEAN, c \in SUBSET ClauseNumbers,
        k \in {<<0, 0>>, <<2, 1>>, <<2, 2>>}}

NoAnswer == [structure |-> FALSE, references |-> FALSE, clauses |-> {},
             keywords |-> 0, matched |-> 0]

\* The warnings _check_format collects in its local list
format_warnings(a, results) ==
    (IF a.structure THEN {} ELSE {"no_structure"})
    \cup (IF a.references THEN {} ELSE {"no_references"})
    \cup (IF /\ \E i \in DOMAIN results : results[i].clause_number # "N/A"
             /\ a.clauses = {}
          THEN {"clause_numbers_not_cited"} ELSE {})

\* _check_format: the local warnings are logged; the detail it returns has
\* no field for them
check_format(a, results) ==
    LET passed_count == (IF a.structure THEN 1 ELSE 0)
                        + (IF a.references THEN 1 ELSE 0)
    IN  [passed |-> a.structure /\ a.references,
         score |-> (passed_count * ONE) \div 2]

check_context_match(a, results) ==
    IF a.keywords = 0 THEN [passed |-> TRUE, score |-> ONE]
    ELSE IF results = <<>> THEN [passed |-> FALSE, score |-> 0]
    ELSE LET score == (a.matched * ONE) \div a.keywords
         IN  [passed |-> 10 * score >= 7 * ONE, score |-> score]

\* _check_clause_existence: table is document_chunks, execute is what
\* session.execute does ("ok" or "raises").  The query selects the cited
\* clause numbers that occur in document_chunks.clause_number.
check_clause_existence(a, table, execute) ==
    IF a.clauses = {} THEN [passed |-> TRUE, score |-> ONE]
    ELSE IF execute = "raises" THEN [passed |-> FALSE, score |-> HALF]
    ELSE LET existing_clauses == {c \in a.clauses : table[c] # "absent"}
             score == (Cardinality(existing_clauses) * ONE)
                         \div Cardinality(a.clauses)
         IN  [passed |-> 10 * score >= 8 * ONE, score |-> score]

\* What the hallucination LLM call does.  "api_error": the call raises.
\* "not_json": the reply is not JSON.  "bad_json": the reply is JSON that is
\* not an object with a numeric score.  "json": an object, with or without
\* a score; the model may give a score outside [0, 1].
HallucinationReplies ==
    {[kind |-> k, has_score |-> FALSE, score |-> 0, grounded |-> FALSE] :
        k \in {"api_error", "not_json", "bad_json"}}
    \cup {[kind |-> "json", has_score |-> TRUE, score |-> s, grounded |-> s # 0] :
            s \in {0, HALF, ONE, 2 * ONE}}
    \cup {[kind |-> "json", has_score |-> FALSE, score |-> 0, grounded |-> TRUE]}

\* _check_hallucination leaves by an exception: "import json" is a
\* statement of the try block after the API call, so json is a local name
\* of the function, and when the call raises, evaluating the handler
\* "except json.JSONDecodeError" raises UnboundLocalError.
hallucination_raises(reply) == reply.kind = "api_error"

Max(a, b) == IF a >= b THEN a ELSE b
Min(a, b) == IF a <= b THEN a ELSE b

\* _check_hallucination, when it returns
check_hallucination(reply) ==
    IF reply.kind = "json"
    THEN LET score == IF reply.has_score THEN reply.score ELSE HALF
         IN  [passed |-> reply.grounded, score |-> Max(0, Min(ONE, score))]
    ELSE [passed |-> TRUE, score |-> HALF]

calculate_confidence_unweighted(hallucination, context, clause, format) ==
    LET confidence == ((hallucination.score + context.score + clause.score
                        + format.score) * 10) \div 4
    IN  Max(0, Min(10 * ONE, confidence))

\* _calculate_confidence, in tenths of ONE
calculate_confidence(hallucination, context, clause, format) ==
    LET confidence == hallucination.score * WEIGHTS.hallucination
                      + context.score * WEIGHTS.context
                      + clause.score * WEIGHTS.clause
                      + format.score * WEIGHTS.format
    IN  Max(0, Min(10 * ONE, confidence))

FallbackReport_reliable ==
    [confidence_score |-> 5 * ONE, is_reliable |-> TRUE,
     hallucination_check |-> [passed |-> FALSE, score |-> HALF],
     context_check |-> [passed |-> FALSE, score |-> HALF],
     clause_check |-> [passed |-> FALSE, score |-> HALF],
     format_check |-> [passed |-> FALSE, score |-> HALF],
     regeneration_count |-> 0, warnings |-> <<"validation_error">>]

\* validate: the report of its except block
FallbackReport ==
    [confidence_score |-> 5 * ONE, is_reliable |-> FALSE,
     hallucination_check |-> [passed |-> FALSE, score |-> HALF],
     context_check |-> [passed |-> FALSE, score |-> HALF],
     clause_check |-> [passed |-> FALSE, score |-> HALF],
     format_check |-> [passed |-> FALSE, score |-> HALF],
     regeneration_count |-> 0, warnings |-> <<"validation_error">>]

\* validate(answer, search_results, session)
validate(a, results, table, execute, reply) ==
    IF hallucination_raises(reply) THEN FallbackReport
    ELSE LET format_check == check_format(a, results)
             context_check == check_context_match(a, results)
             clause_check == check_clause_existence(a, table, execute)
             hallucination_check == check_hallucination(reply)
             confidence_score == calculate_confidence(hallucination_check,
                                     context_check, clause_check, format_check)
         IN  [confidence_score |-> confidence_score,
              is_reliable |-> confidence_score >= threshold * ONE,
              hallucination_check |-> hallucination_check,
              context_check |-> context_check,
              clause_check |-> clause_check,
              format_check |-> format_check,
              regeneration_count |-> 0, warnings |-> <<>>]

NoValidation == [FallbackReport EXCEPT !.warnings = <<"no_validation">>]

NoCall ==
    [called |-> FALSE, execute |-> "none",
     reply |-> [kind |-> "none", has_score |-> FALSE, score |-> 0,
                grounded |-> FALSE]]

\* no request runs step by step
IdleRequest ==
    /\ clause_db = [c \in ClauseNumbers |-> "absent"]
    /\ pc = "idle"
    /\ attempt = 0
    /\ answer = NoAnswer
    /\ validation = NoValidation
    /\ sessions = 0
    /\ gen_calls = 0
    /\ vin = NoCall

\* --------------------------------------------------- agents/graph.py
QueryKinds == {"empty", "incomplete", "complete"}

\* the structure pass has not run in this request
NoStructurePass == [ran |-> FALSE, found |-> FALSE]

NoAnswerCalls == [generation |-> 0, hallucination |-> 0]

NoHybridCall ==
    [vector |-> <<>>, keyword |-> <<>>, vector_search |-> "none",
     keyword_search |-> "none", limit |-> 0, max_tokens |-> 0]

NoHybridResult ==
    [called |-> FALSE, raised |-> FALSE, fused |-> <<>>, results |-> <<>>,
     total_tokens |-> 0]

\* initial_state of run_graph
InitialState(q) ==
    /\ node = "router"
    /\ query = q
    /\ search_results = <<>>
    /\ context_sufficient = "none"
    /\ chunks_to_expand = <<>>
    /\ expanded_chunks = <<>>
    /\ expansion_count = 0
    /\ next_agent = "router"
    /\ error = "none"
    /\ final_answer = "none"
    /\ task_results = NoResults
    /\ llm_calls = 0
    /\ judge_visits = 0
    /\ expand_visits = 0
    /\ llm_check = NoLLMCheck
    /\ search_calls = 0
    /\ first_structure = NoStructurePass
    /\ answer_calls = NoAnswerCalls

\* ---------------------------------------------------------- core/cache.py
\* MemoryCache.  An entry of _cache is [key, value, expires_at]; the
\* sequence is the OrderedDict, first entry = least recently used.  A value
\* is a string, written as a tuple; None is the empty tuple.
None == <<>>

HasKey(c, key) == \E i \in DOMAIN c : c[i].key = key

EntryOf(c, key) == c[CHOOSE i \in DOMAIN c : c[i].key = key]

\* del self._cache[key]
Without(c, key) == SelectSeq(c, LAMBDA e : e.key # key)

\* self._cache.move_to_end(key)
move_to_end(c, key) == Without(c, key) \o <<EntryOf(c, key)>>

\* _is_expired: time.time() > entry['expires_at']
is_expired(entry, t) == t > entry.expires_at

\* _evict_if_needed: while len(self._cache) >= self._max_size:
\*                       self._cache.popitem(last=False)
RECURSIVE evict_if_needed(_, _)
evict_if_needed(c, m) ==
    IF Len(c) >= m /\ c # <<>> THEN evict_if_needed(Tail(c), m) ELSE c

\* MemoryCache.get: the cache it leaves and the value it returns
MemoryCache_get(c, key, t) ==
    IF ~HasKey(c, key) THEN [cache |-> c, value |-> None]
    ELSE IF is_expired(EntryOf(c, key), t)
    THEN [cache |-> Without(c, key), value |-> None]
    ELSE [cache |-> move_to_end(c, key), value |-> EntryOf(c, key).value]

\* MemoryCache.set: the assignment keeps the position of a key that is
\* present and appends a new one; move_to_end; _evict_if_needed
MemoryCache_set(c, m, key, value, ttl, t) ==
    LET entry == [key |-> key, value |-> value, expires_at |-> t + ttl]
        assigned == IF HasKey(c, key)
                    THEN [i \in DOMAIN c |->
                            IF c[i].key = key THEN entry ELSE c[i]]
                    ELSE Append(c, entry)
    IN  evict_if_needed(move_to_end(assigned, key), m)

\* MemoryCache.delete: self._cache.pop(key, None)
MemoryCache_delete(c, key) == Without(c, key)

NoOp == [op |-> "none", key |-> <<>>, value |-> None, result |-> None,
         before |-> <<>>, time |-> 0]

\* the cache is empty and no embedding is asked for
IdleEmbedding ==
    /\ cache = <<>>
    /\ max_size = DEFAULT_MAX_SIZE
    /\ now = 0
    /\ last_op = NoOp
    /\ requests = <<>>
    /\ api_log = <<>>
    /\ in_flight = <<>>
    /\ waiting = <<>>

\* no single service is called
IdleServices ==
    /\ hin = NoHybridCall
    /\ hout = NoHybridResult
    /\ search_log = <<>>
    /\ scores = [upload |-> 0, manage |-> 0, search |-> 0]
    /\ intent = "none"

Init ==
    /\ mode = "flow"
    /\ IdleEmbedding
    /\ store \in FlowStores
    /\ xin = <<>>
    /\ xreq = <<>>
    /\ IdleRequest
    /\ IdleServices
    /\ \E q \in QueryKinds : InitialState(q)

\* agents/router_agent.py: run_graph sets task_type = "search"
Router ==
    /\ mode = "flow"
    /\ node = "router"
    /\ next_agent' = "search_agent"
    /\ node' = "search_agent"
    /\ UNCHANGED <<store, mode, query, search_results, context_sufficient,
                   chunks_to_expand, expanded_chunks, expansion_count, error,
                   final_answer, task_results, llm_calls, judge_visits,
                   expand_visits, llm_check, xin, xreq, cvars,
                   avars>>

\* The result lists hybrid_search can return: distinct chunks within the
\* token budget of optimize_context.
SearchOutputs(n, budget) ==
    {r \in SeqsUpTo(ChunkIds, n) :
        /\ NoDup(r)
        /\ SumSeq([i \in DOMAIN r |-> store[r[i]].tok]) <= budget}

\* agents/search_agent.py
Search ==
    /\ mode = "flow"
    /\ node = "search_agent"
    /\ \/ /\ query = "empty"
          /\ error' = "empty_query"
          /\ search_results' = <<>>
          /\ UNCHANGED <<task_results, search_calls>>
       \/ /\ query = "incomplete"
          /\ error' = "none"
          /\ search_results' = <<>>
          /\ task_results' = merge_dicts(task_results,
                [k \in {"search"} |-> [success |-> FALSE, incomplete_query |-> TRUE]])
          /\ UNCHANGED search_calls
       \/ /\ query = "complete"
          /\ \E r \in SearchOutputs(MaxResults, SEARCH_MAX_TOKENS) :
                search_results' = [i \in DOMAIN r |-> RawResult(r[i])]
          /\ error' = "none"
          /\ task_results' = merge_dicts(task_results,
                [k \in {"search"} |-> [success |-> TRUE, incomplete_query |-> FALSE]])
          /\ search_calls' = search_calls + 1
       \/ /\ query = "complete"
          /\ error' = "search_error"
          /\ search_results' = <<>>
          /\ task_results' = merge_dicts(task_results,
                [k \in {"search"} |-> [success |-> FALSE, incomplete_query |-> FALSE]])
          /\ search_calls' = search_calls + 1
    /\ next_agent' = "answer_agent"
    /\ node' = "context_judgement_agent"
    /\ UNCHANGED <<store, mode, query, context_sufficient, chunks_to_expand,
                   expanded_chunks, expansion_count, final_answer, llm_calls,
                   judge_visits, expand_visits, llm_check, xin, xreq,
                   answer_calls, first_structure, evars, avars>>

\* ---------------------------------------- agents/chunk_expansion_agent.py
ExpandedIds(results) ==
    LET e == SelectSeq(results, LAMBDA r : r.expanded)
    IN  [i \in DOMAIN e |-> e[i].chunk_id]

\* if not chunks_to_expand: the early return of expand
ExpandNoCandidates ==
    /\ chunks_to_expand = <<>>
    /\ task_results' = merge_dicts(task_results,
          [k \in {"chunk_expansion"} |-> [success |-> TRUE, expanded |-> FALSE]])
    /\ next_agent' = "context_judgement_agent"
    /\ UNCHANGED <<search_results, expanded_chunks, chunks_to_expand, error, cvars,
                   avars>>

\* The try block of expand; dbdown: the pivots whose adjacency query fails
ExpandCandidates ==
    /\ chunks_to_expand # <<>>
    /\ \E dbdown \in SUBSET {chunks_to_expand[i].chunk_id : i \in DOMAIN chunks_to_expand} :
          search_results' = expand_search_results(search_results,
                                chunks_to_expand, EXPAND_MAX_TOKENS, dbdown)
    /\ expanded_chunks' = ExpandedIds(search_results')
    /\ chunks_to_expand' = <<>>
    /\ task_results' = merge_dicts(task_results,
          [k \in {"chunk_expansion"} |-> [success |-> TRUE, expanded |-> TRUE]])
    /\ next_agent' = "context_judgement_agent"
    /\ UNCHANGED error

\* The except block of expand
ExpandFailed ==
    /\ chunks_to_expand # <<>>
    /\ error' = "expansion_error"
    /\ task_results' = merge_dicts(task_results,
          [k \in {"chunk_expansion"} |-> [success |-> FALSE, expanded |-> FALSE]])
    /\ next_agent' = "answer_agent"
    /\ UNCHANGED <<search_results, expanded_chunks, chunks_to_expand, cvars,
                   avars>>

\* expand, then the edge chunk_expansion_agent -> context_judgement_agent
Expand_twice ==
    /\ mode = "flow"
    /\ node = "chunk_expansion_agent"
    /\ \/ ExpandNoCandidates
       \/ ExpandFailed
       \/ ExpandCandidates
    /\ expansion_count' = expansion_count + 2
    /\ expand_visits' = expand_visits + 1
    /\ node' = "context_judgement_agent"
    /\ llm_check' = NoLLMCheck
    /\ UNCHANGED <<store, mode, query, context_sufficient, final_answer,
                   llm_calls, judge_visits, xin, xreq, cvars,
                   avars>>

Expand ==
    /\ mode = "flow"
    /\ node = "chunk_expansion_agent"
    /\ \/ ExpandNoCandidates
       \/ ExpandFailed
       \/ ExpandCandidates
    /\ expansion_count' = expansion_count + 1
    /\ expand_visits' = expand_visits + 1
    /\ node' = "context_judgement_agent"
    /\ llm_check' = NoLLMCheck
    /\ UNCHANGED <<store, mode, query, context_sufficient, final_answer,
                   llm_calls, judge_visits, xin, xreq, cvars,
                   avars>>

\* ------------------------------------------------- agents/answer_agent.py
\* The LLM calls of the loop of generate_answer.  When it returns an answer
\* (ok), the attempt that returned was validated; when it returns the
\* failure response, all MAX_ATTEMPTS attempts ran and the last one raised.
\* Every attempt makes the generation call; the attempts that reach
\* validate make the hallucination check.
AnswerCalls(ok) ==
    IF ok
    THEN {c \in [generation : 1..MAX_ATTEMPTS,
                  hallucination : 1..MAX_ATTEMPTS] :
             c.hallucination <= c.generation}
    ELSE {[generation |-> MAX_ATTEMPTS, hallucination |-> h] :
             h \in 0..(MAX_ATTEMPTS - 1)}

Answer ==
    /\ mode = "flow"
    /\ node = "answer_agent"
    /\ \/ /\ error # "none"
          /\ final_answer' = "apology"
          /\ task_results' = merge_dicts(task_results,
                [k \in {"answer"} |-> [success |-> FALSE]])
          /\ UNCHANGED answer_calls
       \/ /\ error = "none"
          /\ search_results = <<>>
          /\ final_answer' = "no_results"
          /\ task_results' = merge_dicts(task_results,
                [k \in {"answer"} |-> [success |-> TRUE]])
          /\ UNCHANGED answer_calls
       \/ /\ error = "none"
          /\ search_results # <<>>
          /\ \E ok \in BOOLEAN :
                /\ final_answer' = (IF ok THEN "generated" ELSE "failure")
                /\ task_results' = merge_dicts(task_results,
                      [k \in {"answer"} |-> [success |-> ok]])
                /\ answer_calls' \in AnswerCalls(ok)
    /\ node' = "END"
    /\ llm_check' = NoLLMCheck
    /\ UNCHANGED <<store, mode, query, search_results, context_sufficient,
                   chunks_to_expand, expanded_chunks, expansion_count,
                   next_agent, error, llm_calls, judge_visits, expand_visits,
                   xin, xreq, search_calls, first_structure, evars,
                   avars>>

\* The next call of run_graph: a fresh graph and a fresh initial state
NewRequest ==
    /\ mode = "flow"
    /\ node = "END"
    /\ node' = "router"
    /\ query' \in QueryKinds
    /\ search_results' = <<>>
    /\ context_sufficient' = "none"
    /\ chunks_to_expand' = <<>>
    /\ expanded_chunks' = <<>>
    /\ expansion_count' = 0
    /\ next_agent' = "router"
    /\ error' = "none"
    /\ final_answer' = "none"
    /\ task_results' = NoResults
    /\ llm_calls' = 0
    /\ judge_visits' = 0
    /\ expand_visits' = 0
    /\ llm_check' = NoLLMCheck
    /\ search_calls' = 0
    /\ first_structure' = NoStructurePass
    /\ answer_calls' = NoAnswerCalls
    /\ UNCHANGED <<store, mode, xin, xreq, evars, avars>>

Next == Router \/ Search \/ Judge \/ Expand \/ Answer \/ NewRequest

Spec == Init /\ [][Next]_vars

\* A step of the graph runtime within a request: the node that is scheduled
\* runs and hands over to the node its outgoing edge names.
RunNode == node # "END" /\ node' # node

\* Within a request the graph runs its nodes one after the other and every
\* node function returns; only the arrival of a new request is not assured.
\* This is weak fairness of the node steps Router, Search, Judge, Expand and
\* Answer, written out as "infinitely often disabled or infinitely often
\* taken": in the behaviours of Spec those steps are the RunNode steps, and
\* one of them is enabled exactly when node is not END.
FairSpec == Spec /\ ([]<>(node = "END") \/ []<><<RunNode>>_vars)

TypeOK ==
    /\ node \in {"router", "search_agent", "context_judgement_agent",
                 "chunk_expansion_agent", "answer_agent", "END"}
    /\ expansion_count \in Nat

\* ------------------------------------------------- expansion-only runs
\* The chunks_to_expand lists a judge pass can hand to the expander for a
\* result list r: f says, per result, whether it is named and in which
\* direction.
RECURSIVE ExpandRequest(_, _, _)
ExpandRequest(r, f, i) ==
    IF i > Len(r) THEN <<>>
    ELSE IF f[i] = "skip" THEN ExpandRequest(r, f, i + 1)
    ELSE <<[chunk_id |-> r[i], direction |-> f[i]]>> \o ExpandRequest(r, f, i + 1)

InitX ==
    /\ mode = "expand"
    /\ IdleEmbedding
    /\ store \in ExpandStores
    /\ xin = <<>>
    /\ xreq = <<>>
    /\ IdleRequest
    /\ IdleServices
    /\ InitialState("complete")

\* The first expander step of a request: search results as the search step
\* returned them, and the chunks_to_expand of the judge's first pass.
CallExpand ==
    /\ mode = "expand"
    /\ node = "router"
    /\ \E r \in SearchOutputs(MaxResultsX, SEARCH_MAX_TOKENS) \ {<<>>} :
       \E f \in [DOMAIN r -> {"skip", "prev", "next", "both"}] :
          /\ ExpandRequest(r, f, 1) # <<>>
          /\ xin' = [i \in DOMAIN r |-> RawResult(r[i])]
          /\ xreq' = ExpandRequest(r, f, 1)
          /\ search_results' = expand_search_results(xin', ExpandRequest(r, f, 1),
                                                     EXPAND_MAX_TOKENS, {})
          /\ chunks_to_expand' = <<>>
    /\ expanded_chunks' = ExpandedIds(search_results')
    /\ expansion_count' = expansion_count + 1
    /\ expand_visits' = expand_visits + 1
    /\ node' = "context_judgement_agent"
    /\ UNCHANGED <<store, mode, query, context_sufficient, next_agent, error,
                   final_answer, task_results, llm_calls, judge_visits, llm_check, cvars,
                   avars>>

\* A later expander step: the judge's later passes name one chunk, "next".
CallExpandAgain ==
    /\ mode = "expand"
    /\ node = "context_judgement_agent"
    /\ expansion_count < MAX_EXPANSION_COUNT
    /\ search_results # <<>>
    /\ CurrentTokens(search_results) <= TOKEN_CEILING
    /\ \E i \in DOMAIN search_results :
          /\ xin' = search_results
          /\ xreq' = <<[chunk_id |-> search_results[i].chunk_id,
                        direction |-> "next"]>>
          /\ search_results' = expand_search_results(search_results,
                                   <<[chunk_id |-> search_results[i].chunk_id,
                                      direction |-> "next"]>>,
                                   EXPAND_MAX_TOKENS, {})
          /\ chunks_to_expand' = <<>>
    /\ expanded_chunks' = ExpandedIds(search_results')
    /\ expansion_count' = expansion_count + 1
    /\ expand_visits' = expand_visits + 1
    /\ UNCHANGED <<store, mode, node, query, context_sufficient, next_agent,
                   error, final_answer, task_results, llm_calls, judge_visits,
                   llm_check, cvars,
                   avars>>

NextX == CallExpand \/ CallExpandAgain

ExpandSpec == InitX /\ [][NextX]_vars

\* ---------------------------------------- requests that run step by step
\* A request whose agent steps are followed statement by statement where
\* they open, use and close a database session.  The search results are
\* kept as far as the validator reads them: whether a result carries a
\* clause number.
AnswerInputs ==
    {<<[chunk_id |-> 1, clause_number |-> cn]>> : cn \in {"N/A", "clause"}}

\* the variables of the graph state a request that runs step by step
\* does not use, and the history variables of the other runs
unused == <<store, mode, query, context_sufficient, chunks_to_expand,
            expanded_chunks, expansion_count, next_agent, llm_calls,
            judge_visits, expand_visits, llm_check, xin, xreq, cvars, svars>>

InitA ==
    /\ mode = "answer"
    /\ IdleEmbedding
    /\ store \in {StoreOf([c \in ChunkIds |-> Plain(2000)])}
    /\ xin = <<>>
    /\ xreq = <<>>
    /\ InitialState("complete")
    /\ IdleServices
    /\ clause_db \in [ClauseNumbers -> {"active", "inactive", "absent"}]
    /\ pc = "search"
    /\ attempt = 0
    /\ answer = NoAnswer
    /\ validation = NoValidation
    /\ sessions = 0
    /\ gen_calls = 0
    /\ vin = NoCall

\* SearchAgent.search up to "session = AsyncSessionLocal()": an incomplete
\* query returns before; creating the session may raise
SearchOpenSession ==
    /\ mode = "answer"
    /\ pc = "search"
    /\ \/ /\ search_results' = <<>>
          /\ error' = "none"
          /\ pc' = "answer"
          /\ UNCHANGED sessions
       \/ /\ sessions' = sessions + 1
          /\ pc' = "search_body"
          /\ UNCHANGED <<search_results, error>>
       \/ /\ search_results' = <<>>
          /\ error' = "search_error"
          /\ pc' = "answer"
          /\ UNCHANGED sessions
    /\ UNCHANGED <<unused, final_answer, task_results, node, clause_db,
                   attempt, answer, validation, gen_calls, vin>>

\* the inner try block of SearchAgent.search: it returns the results or
\* raises; the value the step returns is recorded here
SearchBody ==
    /\ mode = "answer"
    /\ pc = "search_body"
    /\ \/ /\ search_results' \in AnswerInputs \cup {<<>>}
          /\ error' = "none"
       \/ /\ search_results' = <<>>
          /\ error' = "search_error"
    /\ pc' = "search_finally"
    /\ UNCHANGED <<unused, final_answer, task_results, node, clause_db,
                   attempt, answer, validation, sessions, gen_calls, vin>>

\* the finally block of SearchAgent.search, and the judge's routing: with
\* results it names the expander or the answerer
SearchCloseSession ==
    /\ mode = "answer"
    /\ pc = "search_finally"
    /\ sessions' = sessions - 1
    /\ pc' \in (IF search_results # <<>> THEN {"expand", "answer"}
                ELSE {"answer"})
    /\ UNCHANGED <<unused, final_answer, task_results, node, search_results,
                   error, clause_db, attempt, answer, validation, gen_calls,
                   vin>>

\* ChunkExpansionAgent.expand up to "session = AsyncSessionLocal()"
ExpandOpenSession ==
    /\ mode = "answer"
    /\ pc = "expand"
    /\ \/ /\ sessions' = sessions + 1
          /\ pc' = "expand_body"
          /\ UNCHANGED error
       \/ /\ error' = "expansion_error"
          /\ pc' = "answer"
          /\ UNCHANGED sessions
    /\ UNCHANGED <<unused, final_answer, task_results, node, search_results,
                   clause_db, attempt, answer, validation, gen_calls, vin>>

\* the inner try block of ChunkExpansionAgent.expand: the expansion keeps
\* the clause numbers of the results, or it raises
ExpandBody ==
    /\ mode = "answer"
    /\ pc = "expand_body"
    /\ \/ UNCHANGED error
       \/ error' = "expansion_error"
    /\ pc' = "expand_finally"
    /\ UNCHANGED <<unused, final_answer, task_results, node, search_results,
                   clause_db, attempt, answer, validation, sessions,
                   gen_calls, vin>>

ExpandCloseSession_leak ==
    /\ mode = "answer"
    /\ pc = "expand_finally"
    /\ sessions' = (IF error = "none" THEN sessions - 1 ELSE sessions)
    /\ pc' = "answer"
    /\ UNCHANGED <<unused, final_answer, task_results, node, search_results,
                   error, clause_db, attempt, answer, validation, gen_calls,
                   vin>>

\* the finally block of ChunkExpansionAgent.expand
ExpandCloseSession ==
    /\ mode = "answer"
    /\ pc = "expand_finally"
    /\ sessions' = sessions - 1
    /\ pc' = "answer"
    /\ UNCHANGED <<unused, final_answer, task_results, node, search_results,
                   error, clause_db, attempt, answer, validation, gen_calls,
                   vin>>

\* generate_answer before its loop
AnswerEntry ==
    /\ mode = "answer"
    /\ pc = "answer"
    /\ \/ /\ error # "none"
          /\ final_answer' = "apology"
          /\ task_results' = merge_dicts(task_results,
                [k \in {"answer"} |-> [success |-> FALSE]])
          /\ pc' = "done"
       \/ /\ error = "none"
          /\ search_results = <<>>
          /\ final_answer' = "no_results"
          /\ task_results' = merge_dicts(task_results,
                [k \in {"answer"} |-> [success |-> TRUE]])
          /\ pc' = "done"
       \/ /\ error = "none"
          /\ search_results # <<>>
          /\ pc' = "generate"
          /\ UNCHANGED <<final_answer, task_results>>
    /\ attempt' = 0
    /\ UNCHANGED <<unused, node, search_results, error, clause_db, answer,
                   validation, sessions, gen_calls, vin>>

\* The next turn of the loop of generate_answer.  The answer and the report
\* of the turn that ends are not read again: they are forgotten here.
NextAttempt ==
    /\ attempt' = attempt + 1
    /\ answer' = NoAnswer
    /\ validation' = NoValidation
    /\ vin' = NoCall
    /\ pc' = "generate"
    /\ UNCHANGED <<final_answer, task_results>>

AttemptFailed_gives_up ==
    /\ final_answer' = "failure"
    /\ task_results' = merge_dicts(task_results,
          [k \in {"answer"} |-> [success |-> FALSE,
                                 attempts |-> attempt + 1]])
    /\ pc' = "done"
    /\ UNCHANGED <<attempt, answer, validation, vin>>

\* the except block of the loop of generate_answer
AttemptFailed ==
    IF attempt = MAX_ATTEMPTS - 1
    THEN /\ final_answer' = "failure"
         /\ task_results' = merge_dicts(task_results,
               [k \in {"answer"} |-> [success |-> FALSE,
                                      attempts |-> attempt + 1]])
         /\ pc' = "done"
         /\ UNCHANGED <<attempt, answer, validation, vin>>
    ELSE NextAttempt

\* the generation call of one attempt: it returns an answer or raises
Generate ==
    /\ mode = "answer"
    /\ pc = "generate"
    /\ gen_calls' = gen_calls + 1
    /\ \/ /\ answer' \in Answers
          /\ pc' = "open"
          /\ UNCHANGED <<attempt, validation, vin, final_answer,
                         task_results>>
       \/ AttemptFailed
    /\ UNCHANGED <<unused, node, search_results, error, clause_db, sessions>>

\* "session = AsyncSessionLocal()" of one attempt
OpenSession ==
    /\ mode = "answer"
    /\ pc = "open"
    /\ \/ /\ sessions' = sessions + 1
          /\ pc' = "validate"
          /\ UNCHANGED <<attempt, answer, validation, vin, final_answer,
                         task_results>>
       \/ /\ AttemptFailed
          /\ UNCHANGED sessions
    /\ UNCHANGED <<unused, node, search_results, error, clause_db, gen_calls>>

set_regeneration_count_kept(report, n) == report

\* "validation.regeneration_count = attempt"
set_regeneration_count(report, n) == [report EXCEPT !.regeneration_count = n]

\* the try block of one attempt: validate, then regeneration_count
Validate ==
    /\ mode = "answer"
    /\ pc = "validate"
    /\ \E reply \in HallucinationReplies, execute \in {"ok", "raises"} :
          /\ validation' = set_regeneration_count(
                              validate(answer, search_results, clause_db,
                                       execute, reply), attempt)
          /\ vin' = [called |-> TRUE, execute |-> execute, reply |-> reply]
    /\ pc' = "finally"
    /\ UNCHANGED <<unused, node, search_results, error, final_answer,
                   task_results, clause_db, attempt, answer, sessions,
                   gen_calls>>

\* the finally block of one attempt
CloseSession ==
    /\ mode = "answer"
    /\ pc = "finally"
    /\ sessions' = sessions - 1
    /\ pc' = "decide"
    /\ UNCHANGED <<unused, node, search_results, error, final_answer,
                   task_results, clause_db, attempt, answer, validation,
                   gen_calls, vin>>

\* the end of one attempt: return the answer, or go round the loop
Decide ==
    /\ mode = "answer"
    /\ pc = "decide"
    /\ IF validation.is_reliable \/ attempt = MAX_ATTEMPTS - 1
       THEN /\ final_answer' = "generated"
            /\ task_results' = merge_dicts(task_results,
                  [k \in {"answer"} |-> [success |-> TRUE,
                                         validation |-> validation]])
            /\ pc' = "done"
            /\ UNCHANGED <<attempt, answer, validation, vin>>
       ELSE NextAttempt
    /\ UNCHANGED <<unused, node, search_results, error, clause_db, sessions,
                   gen_calls>>

NextA ==
    \/ SearchOpenSession \/ SearchBody \/ SearchCloseSession
    \/ ExpandOpenSession \/ ExpandBody \/ ExpandCloseSession
    \/ AnswerEntry \/ Generate \/ OpenSession \/ Validate \/ CloseSession
    \/ Decide

AnswerSpec == InitA /\ [][NextA]_vars

\* --------------------------------------- calls of services/hybrid_search.py
\* RRF scores are fractions with denominator RRFScale, the product of the
\* denominators k + rank + 1 that occur: a score is kept as its numerator.
RECURSIVE RRFProduct(_)
RRFProduct(n) == IF n = 0 THEN 1 ELSE (RRF_K + n) * RRFProduct(n - 1)

RRFScale == RRFProduct(MaxHits)

RankScore_from_one(rank) == RRFScale \div (RRF_K + rank)

\* 1.0 / (k + rank + 1), rank counted from 0
RankScore(rank) == RRFScale \div (RRF_K + rank + 1)

\* One of the two loops of reciprocal_rank_fusion over the dict scores,
\* kept as the sequence of its items in insertion order; results is a list
\* of chunk ids in rank order.
RECURSIVE Accumulate(_, _, _)
Accumulate(items, results, i) ==
    IF i > Len(results) THEN items
    ELSE LET chunk_id == results[i]
             score == RankScore(i - 1)
         IN  Accumulate(
                IF \E j \in DOMAIN items : items[j].chunk_id = chunk_id
                THEN [j \in DOMAIN items |->
                        IF items[j].chunk_id = chunk_id
                        THEN [items[j] EXCEPT !.score = @ + score]
                        ELSE items[j]]
                ELSE Append(items, [chunk_id |-> chunk_id, score |-> score]),
                results, i + 1)

InsertByScore_ascending(sorted, x) ==
    LET n == Cardinality({j \in DOMAIN sorted : sorted[j].score <= x.score})
    IN  SubSeq(sorted, 1, n) \o <<x>> \o SubSeq(sorted, n + 1, Len(sorted))

\* sorted(..., key=score, reverse=True) is stable: an item goes behind the
\* items before it whose score is at least its own
InsertByScore(sorted, x) ==
    LET n == Cardinality({j \in DOMAIN sorted : sorted[j].score >= x.score})
    IN  SubSeq(sorted, 1, n) \o <<x>> \o SubSeq(sorted, n + 1, Len(sorted))

RECURSIVE SortedByScore(_)
SortedByScore(items) ==
    IF items = <<>> THEN <<>>
    ELSE InsertByScore(SortedByScore(SubSeq(items, 1, Len(items) - 1)),
                       items[Len(items)])

reciprocal_rank_fusion(vector_results, keyword_results) ==
    SortedByScore(Accumulate(Accumulate(<<>>, vector_results, 1),
                             keyword_results, 1))

\* the loop of optimize_context from its i-th result on
RECURSIVE OptimizeLoop(_, _, _, _)
OptimizeLoop(results, max_tokens, i, out) ==
    IF i > Len(results) THEN out
    ELSE LET tokens == Tokens(results[i].content)
         IN  IF out.total_tokens + tokens <= max_tokens
             THEN OptimizeLoop(results, max_tokens, i + 1,
                     [results |-> Append(out.results, results[i]),
                      total_tokens |-> out.total_tokens + tokens])
             ELSE out

optimize_context_short(results, max_tokens) ==
    LET out == OptimizeLoop(results, max_tokens, 1,
                            [results |-> <<>>, total_tokens |-> 0])
        n == Len(out.results)
    IN  IF n = 0 THEN out
        ELSE [results |-> SubSeq(out.results, 1, n - 1),
              total_tokens |-> out.total_tokens
                                  - Tokens(out.results[n].content)]

optimize_context(results, max_tokens) ==
    OptimizeLoop(results, max_tokens, 1,
                 [results |-> <<>>, total_tokens |-> 0])

FirstOf(s, n) == SubSeq(s, 1, IF Len(s) < n THEN Len(s) ELSE n)

SearchRaises_vector(h) == h.vector_search = "raises"

\* hybrid_search calls both searches inside "try ... except Exception":
\* no exception of a search leaves it
SearchRaises(h) == FALSE

\* the list a search gives hybrid_search: empty when the search raised
ResultsOf(outcome, results) == IF outcome = "raises" THEN <<>> ELSE results

\* the result of hybrid_search with its steps: the fused list and the
\* results it returns
hybrid_search(h) ==
    LET vector_results == ResultsOf(h.vector_search, h.vector)
        keyword_results == ResultsOf(h.keyword_search, h.keyword)
        fused_chunk_ids == reciprocal_rank_fusion(vector_results,
                                                  keyword_results)
        top == FirstOf(fused_chunk_ids, h.limit)
        merged_results ==
            [i \in DOMAIN top |-> [chunk_id |-> top[i].chunk_id,
                                   similarity |-> top[i].score,
                                   content |-> <<top[i].chunk_id>>]]
        optimized == optimize_context(merged_results, h.max_tokens)
    IN  IF SearchRaises(h)
        THEN [called |-> TRUE, raised |-> TRUE, fused |-> <<>>,
              results |-> <<>>, total_tokens |-> 0]
        ELSE IF vector_results = <<>> /\ keyword_results = <<>>
        THEN [called |-> TRUE, raised |-> FALSE, fused |-> <<>>,
              results |-> <<>>, total_tokens |-> 0]
        ELSE [called |-> TRUE, raised |-> FALSE, fused |-> fused_chunk_ids,
              results |-> optimized.results,
              total_tokens |-> optimized.total_tokens]

\* the search-log entries of a hybrid_search call: VectorSearchService.search
\* writes one when it returns, hybrid_search writes one at its end
LogEntries(h, out) ==
    (IF h.vector_search = "ok"
     THEN <<[search_type |-> "vector", results_count |-> Len(h.vector)]>>
     ELSE <<>>)
    \o (IF ResultsOf(h.vector_search, h.vector) = <<>>
           /\ ResultsOf(h.keyword_search, h.keyword) = <<>>
        THEN <<>>
        ELSE <<[search_type |-> "hybrid",
                results_count |-> Len(out.results)]>>)

\* The calls of hybrid_search: limit and max_tokens, and what the two
\* searches do: each returns at most 2 * limit distinct chunks in rank
\* order, or raises.
HitLists(limit) ==
    {r \in SeqsUpTo(ChunkIds, MaxHits) : NoDup(r) /\ Len(r) <= 2 * limit}

HybridCalls ==
    {h \in [vector : HitLists(MaxLimit),
            keyword : HitLists(MaxLimit),
            vector_search : {"ok", "raises"},
            keyword_search : {"ok", "raises"},
            limit : 1..MaxLimit,
            max_tokens : {4000, SEARCH_MAX_TOKENS}] :
        /\ h.vector \in HitLists(h.limit)
        /\ h.keyword \in HitLists(h.limit)
        /\ h.vector_search = "raises" => h.vector = <<>>
        /\ h.keyword_search = "raises" => h.keyword = <<>>}

HybridStores ==
    {StoreOf([c \in 1..Doc1Size |-> Plain(t)]) : t \in {2000, 5000}}
    \cup {StoreOf([c \in 1..Doc1Size |->
                     IF c % 2 = 1 THEN Plain(5000) ELSE Plain(2000)])}

InitH ==
    /\ mode = "hybrid"
    /\ IdleEmbedding
    /\ store \in HybridStores
    /\ xin = <<>>
    /\ xreq = <<>>
    /\ InitialState("complete")
    /\ IdleRequest
    /\ hin \in HybridCalls
    /\ hout = NoHybridResult
    /\ search_log = <<>>
    /\ scores = [upload |-> 0, manage |-> 0, search |-> 0]
    /\ intent = "none"

\* the variables a call of a single service leaves alone
graphvars == <<store, mode, node, query, search_results, context_sufficient,
               chunks_to_expand, expanded_chunks, expansion_count,
               next_agent, error, final_answer, task_results, llm_calls,
               judge_visits, expand_visits, llm_check, xin, xreq, clause_db,
               pc, attempt, answer, validation, sessions, gen_calls, vin,
               search_calls, answer_calls, first_structure>>

CallHybridSearch ==
    /\ mode = "hybrid"
    /\ ~hout.called
    /\ hout' = hybrid_search(hin)
    /\ search_log' = search_log \o LogEntries(hin, hout')
    /\ UNCHANGED <<graphvars, evars, hin, scores, intent>>

NextH == CallHybridSearch

HybridSpec == InitH /\ [][NextH]_vars

\* ----------------------------------------- calls of agents/router_agent.py
classify_intent_ties_to_search(sc) ==
    IF sc.upload > sc.manage /\ sc.upload > sc.search THEN "upload"
    ELSE IF sc.manage > sc.upload /\ sc.manage > sc.search THEN "manage"
    ELSE "search"

\* classify_intent: max(scores, key=scores.get) gives the first key with
\* the highest score, in the order upload, manage, search
classify_intent(sc) ==
    LET best == IF sc.upload >= sc.manage /\ sc.upload >= sc.search
                THEN "upload"
                ELSE IF sc.manage >= sc.search THEN "manage" ELSE "search"
    IN  IF sc[best] = 0 THEN "search" ELSE best

InitR ==
    /\ mode = "router"
    /\ IdleEmbedding
    /\ store \in {StoreOf([c \in 1..Doc1Size |-> Plain(2000)])}
    /\ xin = <<>>
    /\ xreq = <<>>
    /\ InitialState("complete")
    /\ IdleRequest
    /\ hin = NoHybridCall
    /\ hout = NoHybridResult
    /\ search_log = <<>>
    /\ scores \in [upload : 0..MaxScore, manage : 0..MaxScore,
                   search : 0..MaxScore]
    /\ intent = "none"

CallClassifyIntent ==
    /\ mode = "router"
    /\ intent = "none"
    /\ intent' = classify_intent(scores)
    /\ UNCHANGED <<graphvars, evars, hin, hout, search_log, scores>>

NextR == CallClassifyIntent

RouterSpec == InitR /\ [][NextR]_vars

\* ---------------------------------------------------- calls of MemoryCache
\* A cache built with some max_size, and any sequence of get, set and
\* delete calls on it while time passes.
CacheKeys == {<<"key", k>> : k \in 1..MaxKeys}
CacheValues == {<<"v1">>, <<"v2">>}

InitC ==
    /\ mode = "cache"
    /\ store \in {StoreOf([c \in 1..Doc1Size |-> Plain(2000)])}
    /\ xin = <<>>
    /\ xreq = <<>>
    /\ InitialState("complete")
    /\ IdleRequest
    /\ IdleServices
    /\ cache = <<>>
    /\ max_size \in 1..MaxCacheSize
    /\ now = 0
    /\ last_op = NoOp
    /\ requests = <<>>
    /\ api_log = <<>>
    /\ in_flight = <<>>
    /\ waiting = <<>>

\* what a call of the cache leaves alone
cachevars == <<graphvars, svars, max_size, now, requests, api_log, in_flight,
               waiting>>

CacheGet ==
    /\ mode = "cache"
    /\ \E key \in CacheKeys :
          LET got == MemoryCache_get(cache, key, now)
          IN  /\ cache' = got.cache
              /\ last_op' = [op |-> "get", key |-> key, value |-> None,
                             result |-> got.value, before |-> cache,
                             time |-> now]
    /\ UNCHANGED cachevars

CacheSet ==
    /\ mode = "cache"
    /\ \E key \in CacheKeys, value \in CacheValues :
          /\ cache' = MemoryCache_set(cache, max_size, key, value,
                                      CACHE_TTL, now)
          /\ last_op' = [op |-> "set", key |-> key, value |-> value,
                         result |-> None, before |-> cache, time |-> now]
    /\ UNCHANGED cachevars

CacheDelete ==
    /\ mode = "cache"
    /\ \E key \in CacheKeys :
          /\ cache' = MemoryCache_delete(cache, key)
          /\ last_op' = [op |-> "delete", key |-> key, value |-> None,
                         result |-> None, before |-> cache, time |-> now]
    /\ UNCHANGED cachevars

\* half a TTL passes between two calls
Tick ==
    /\ mode = "cache"
    /\ now < MaxTicks * (CACHE_TTL \div 2)
    /\ now' = now + CACHE_TTL \div 2
    /\ UNCHANGED <<graphvars, svars, cache, max_size, last_op, requests,
                   api_log, in_flight, waiting>>

NextC == CacheGet \/ CacheSet \/ CacheDelete \/ Tick

CacheSpec == InitC /\ [][NextC]_vars

\* -------------------- calls of services/embedding_service.py and its cache
\* The texts that are embedded; the empty text is the third one.
Texts == {"a", "b"}

\* An embedding is named by the text the API computed it for; the zero
\* vector is [0.0] * EMBEDDING_DIM.
Embedding(text) == <<"embedding", text>>
ZeroVector == <<"zero">>

\* json.dumps of a list of floats and json.loads of the string
json_dumps(embedding) == <<"json">> \o embedding
json_loads(value) == Tail(value)

get_cache_key_model_only(text) == <<"embedding", "text-embedding-3-large">>

\* EmbeddingCacheService._get_cache_key: prefix, model and the md5 digest of
\* the text, which differs for different texts
get_cache_key(text) ==
    <<"embedding", "text-embedding-3-large", <<"md5", text>>>>

\* The EmbeddingService objects of the process that embed: the one
\* HybridSearchService builds through VectorSearchService() and the one of
\* the service container.
Services == {"hybrid_search", "service_container"}

\* Per service, the number of callers at each attempt of
\* _create_embedding_with_retry
NoCallers == [sv \in Services |-> [k \in 1..RETRY_ATTEMPTS |-> 0]]

RECURSIVE SumTo(_, _)
SumTo(count, k) == IF k = 0 THEN 0 ELSE count[k] + SumTo(count, k - 1)

\* the callers of one service, over all attempts
CallersOf(count) == SumTo(count, RETRY_ATTEMPTS)

\* self.semaphore = asyncio.Semaphore(5) of the service sv has a permit left
semaphore_free(sv) == CallersOf(in_flight[sv]) < SEM_PERMITS

\* the indices of the texts of a batch that the cache did not have
Misses(cached) == SelectSeq([i \in DOMAIN cached |-> i],
                            LAMBDA i : cached[i] = None)

\* texts_only: the texts the API is asked for
TextsToCreate(q) ==
    LET m == Misses(q.cached) IN [j \in DOMAIN m |-> q.texts[m[j]]]

\* steps 5 and 6 of create_embeddings_batch: cached and new embeddings in
\* the order of the texts
FinalEmbeddings(q) ==
    LET m == Misses(q.cached)
    IN  [i \in DOMAIN q.texts |->
            IF q.cached[i] # None THEN q.cached[i]
            ELSE q.new_embeddings[CHOOSE j \in DOMAIN m : m[j] = i]]

NewRequestOf(op, texts) ==
    [op |-> op, texts |-> texts,
     service |-> IF op = "single" THEN "hybrid_search"
                 ELSE "service_container",
     pc |-> "start", i |-> 0, cached |-> <<>>, attempt |-> 0,
     new_embeddings |-> <<>>, result |-> <<>>, outcome |-> "none"]

EmbedRequests ==
    {NewRequestOf("single", <<t>>) : t \in Texts \cup {""}}
    \cup {NewRequestOf("batch", ts) : ts \in SeqsUpTo(Texts, MaxBatch)}

\* A number for the arguments of a call. The calls run concurrently and
\* their numbering carries no meaning, so they are numbered in the order
\* of their arguments.
RECURSIVE TextsCode(_)
TextsCode(texts) ==
    IF texts = <<>> THEN 0
    ELSE (CASE Head(texts) = "" -> 0
            [] Head(texts) = "a" -> 1
            [] OTHER -> 2) + 3 * TextsCode(Tail(texts))

ArgumentsCode(q) ==
    (IF q.op = "single" THEN 0 ELSE 1)
    + 2 * (Len(q.texts) + (MaxBatch + 1) * TextsCode(q.texts))

ConcurrentRequests ==
    {rs \in [1..NumRequests -> EmbedRequests] :
        \A r \in 1..(NumRequests - 1) :
            ArgumentsCode(rs[r]) <= ArgumentsCode(rs[r + 1])}

NoApiCalls == [ok |-> [t \in Texts |-> 0], failed |-> 0]

InitE ==
    /\ mode = "embed"
    /\ store \in {StoreOf([c \in 1..Doc1Size |-> Plain(2000)])}
    /\ xin = <<>>
    /\ xreq = <<>>
    /\ InitialState("complete")
    /\ IdleRequest
    /\ IdleServices
    /\ cache = <<>>
    /\ max_size = DEFAULT_MAX_SIZE
    /\ now = 0
    /\ last_op = NoOp
    /\ requests \in ConcurrentRequests
    /\ api_log = NoApiCalls
    /\ in_flight = NoCallers
    /\ waiting = NoCallers

\* what a step of an embedding call leaves alone
embedvars == <<graphvars, svars, max_size, now, last_op, waiting>>

Returned(q, result) ==
    [q EXCEPT !.pc = "done", !.result = result, !.outcome = "returned"]

\* create_embedding / create_embeddings_batch up to the first cache lookup
EmbedStart(r) ==
    LET q == requests[r] IN
    /\ q.pc = "start"
    /\ requests' = [requests EXCEPT ![r] =
          IF q.op = "single" /\ q.texts[1] = ""
          THEN Returned(q, <<ZeroVector>>)
          ELSE IF q.op = "batch" /\ q.texts = <<>>
          THEN Returned(q, <<>>)
          ELSE [q EXCEPT !.pc = "lookup", !.i = 1]]
    /\ UNCHANGED <<cache, api_log, in_flight>>

\* embedding_cache_service.get_embedding for the i-th text
EmbedLookup(r) ==
    LET q == requests[r]
        got == MemoryCache_get(cache, get_cache_key(q.texts[q.i]), now)
        found == IF got.value # None THEN json_loads(got.value) ELSE None
        cached == Append(q.cached, found)
        looked == [q EXCEPT !.cached = cached]
    IN
    /\ q.pc = "lookup"
    /\ cache' = got.cache
    /\ requests' = [requests EXCEPT ![r] =
          IF q.op = "single"
          THEN IF found # None THEN Returned(looked, <<found>>)
               ELSE [looked EXCEPT !.pc = "call", !.attempt = 1]
          ELSE IF q.i < Len(q.texts) THEN [looked EXCEPT !.i = q.i + 1]
          ELSE IF Misses(cached) = <<>> THEN Returned(looked, cached)
          ELSE [looked EXCEPT !.pc = "call", !.attempt = 1]]
    /\ UNCHANGED <<api_log, in_flight>>

\* _create_embedding_with_retry: async with self.semaphore, then the request
\* goes out
EmbedCallStart(r) ==
    LET q == requests[r] IN
    /\ q.pc = "call"
    /\ semaphore_free(q.service)
    /\ in_flight' = [in_flight EXCEPT ![q.service][q.attempt] = @ + 1]
    /\ requests' = [requests EXCEPT ![r].pc = "in_flight"]
    /\ UNCHANGED <<cache, api_log>>

\* the API answers with the embeddings of the texts it was sent
EmbedCallReturns(r) ==
    LET q == requests[r]
        texts == TextsToCreate(q)
    IN
    /\ q.pc = "in_flight"
    /\ in_flight' = [in_flight EXCEPT ![q.service][q.attempt] = @ - 1]
    /\ api_log' = [api_log EXCEPT !.ok =
          [t \in Texts |-> @[t] + (IF t \in Range(texts) THEN 1 ELSE 0)]]
    /\ requests' = [requests EXCEPT ![r] =
          [q EXCEPT !.pc = "store", !.i = 1,
                    !.new_embeddings =
                        [j \in DOMAIN texts |-> Embedding(texts[j])]]]
    /\ UNCHANGED cache

\* create_embedding after the last attempt failed: except Exception: raise
create_embedding_failed(q) ==
    [q EXCEPT !.pc = "done", !.outcome = "raised"]

\* the API call raises: tenacity tries again up to RETRY_ATTEMPTS times,
\* then create_embedding re-raises and create_embeddings_batch puts zero
\* vectors in the place of the batch
EmbedCallFails(r) ==
    LET q == requests[r]
        texts == TextsToCreate(q)
    IN
    /\ q.pc = "in_flight"
    /\ in_flight' = [in_flight EXCEPT ![q.service][q.attempt] = @ - 1]
    /\ api_log' = [api_log EXCEPT !.failed = @ + 1]
    /\ requests' = [requests EXCEPT ![r] =
          IF q.attempt < RETRY_ATTEMPTS
          THEN [q EXCEPT !.pc = "call", !.attempt = q.attempt + 1]
          ELSE IF q.op = "single" THEN create_embedding_failed(q)
          ELSE [q EXCEPT !.pc = "store", !.i = 1,
                         !.new_embeddings =
                             [j \in DOMAIN texts |-> ZeroVector]]]
    /\ UNCHANGED cache

\* embedding_cache_service.set_embedding for the i-th new embedding
EmbedStore(r) ==
    LET q == requests[r]
        texts == TextsToCreate(q)
    IN
    /\ q.pc = "store"
    /\ cache' = MemoryCache_set(cache, max_size, get_cache_key(texts[q.i]),
                                json_dumps(q.new_embeddings[q.i]),
                                CACHE_TTL, now)
    /\ requests' = [requests EXCEPT ![r] =
          IF q.i < Len(texts) THEN [q EXCEPT !.i = q.i + 1]
          ELSE Returned(q, FinalEmbeddings(q))]
    /\ UNCHANGED <<api_log, in_flight>>

NextE ==
    /\ mode = "embed"
    /\ \E r \in 1..NumRequests :
          \/ EmbedStart(r)
          \/ EmbedLookup(r)
          \/ EmbedCallStart(r)
          \/ EmbedCallReturns(r)
          \/ EmbedCallFails(r)
          \/ EmbedStore(r)
    /\ UNCHANGED embedvars

EmbedSpec == InitE /\ [][NextE]_vars

\* ------------- the semaphores of the EmbeddingService objects under load
\* Callers are counted, per service and attempt: waiting before
\* `async with self.semaphore`, in_flight inside it.
InitF ==
    /\ mode = "fanout"
    /\ store \in {StoreOf([c \in 1..Doc1Size |-> Plain(2000)])}
    /\ xin = <<>>
    /\ xreq = <<>>
    /\ InitialState("complete")
    /\ IdleRequest
    /\ IdleServices
    /\ cache = <<>>
    /\ max_size = DEFAULT_MAX_SIZE
    /\ now = 0
    /\ last_op = NoOp
    /\ requests = <<>>
    /\ api_log = <<>>
    /\ in_flight = NoCallers
    /\ waiting = NoCallers

fanoutvars == <<graphvars, svars, cache, max_size, now, last_op, requests,
                api_log>>

Callers ==
    CallersOf(waiting["hybrid_search"]) + CallersOf(in_flight["hybrid_search"])
    + CallersOf(waiting["service_container"])
    + CallersOf(in_flight["service_container"])

\* a caller enters _create_embedding_with_retry of the service sv
CallerArrives(sv) ==
    /\ Callers < MaxCallers
    /\ waiting' = [waiting EXCEPT ![sv][1] = @ + 1]
    /\ UNCHANGED in_flight

\* async with self.semaphore: the caller takes a permit and its request
\* goes out
SemaphoreAcquire(sv, k) ==
    /\ waiting[sv][k] > 0
    /\ semaphore_free(sv)
    /\ waiting' = [waiting EXCEPT ![sv][k] = @ - 1]
    /\ in_flight' = [in_flight EXCEPT ![sv][k] = @ + 1]

\* the API answers; the permit is released and the caller leaves
ApiReturns(sv, k) ==
    /\ in_flight[sv][k] > 0
    /\ in_flight' = [in_flight EXCEPT ![sv][k] = @ - 1]
    /\ UNCHANGED waiting

\* the API call raises; the permit is released and tenacity sends the
\* caller into the next attempt, or gives up after RETRY_ATTEMPTS
ApiFails(sv, k) ==
    /\ in_flight[sv][k] > 0
    /\ in_flight' = [in_flight EXCEPT ![sv][k] = @ - 1]
    /\ waiting' = IF k < RETRY_ATTEMPTS
                   THEN [waiting EXCEPT ![sv][k + 1] = @ + 1]
                   ELSE waiting

NextF ==
    /\ mode = "fanout"
    /\ \E sv \in Services :
          \/ CallerArrives(sv)
          \/ \E k \in 1..RETRY_ATTEMPTS :
                \/ SemaphoreAcquire(sv, k)
                \/ ApiReturns(sv, k)
                \/ ApiFails(sv, k)
    /\ UNCHANGED fanoutvars

FanoutSpec == InitF /\ [][NextF]_vars

\* ======================================================= claims C1 - C10
AfterJudge == node \in {"chunk_expansion_agent", "answer_agent"}

\* C1: in every request expansion_count starts at 0, never decreases from
\* one graph step to the next, and never exceeds MAX_EXPANSION_COUNT (3),
\* also when the expander runs with no candidates or fails.
C1_ExpansionCountBounded ==
    /\ [](expansion_count <= 3 /\ (node = "router" => expansion_count = 0))
    /\ [][node # "END" => expansion_count' >= expansion_count]_vars

C1_Witness ==
    /\ expansion_count = 3
    /\ error = "expansion_error"
    /\ node = "answer_agent"

\* C2: a judge pass over non-empty results with expansion_count >= 3, or
\* with expansion_count >= 1 and more than 10,000 context tokens, sets
\* context_sufficient = true and chunks_to_expand = [] without an LLM call,
\* and the answerer runs next on the same search_results.
C2_ForcedSufficient ==
    [][ ( /\ node = "context_judgement_agent"
          /\ search_results # <<>>
          /\ \/ expansion_count >= 3
             \/ expansion_count >= 1 /\ CurrentTokens(search_results) > 10000 )
        => ( /\ context_sufficient' = "true"
             /\ chunks_to_expand' = <<>>
             /\ llm_calls' = llm_calls
             /\ node' = "answer_agent"
             /\ search_results' = search_results ) ]_vars

C2_Witness ==
    /\ node = "answer_agent"
    /\ expansion_count = 1
    /\ CurrentTokens(search_results) > 10000
    /\ CurrentTokens(search_results) <= 15000
    /\ context_sufficient = "true"

\* C3: every search request terminates: once the search step has run, the
\* answerer and then END are reached, after at most 3 expander visits and at
\* most 4 judge visits.
C3_Terminates ==
    /\ [](expand_visits <= 3 /\ judge_visits <= 4)
    /\ [][node' = "END" => node \in {"answer_agent", "END"}]_vars
    /\ (node = "context_judgement_agent") ~> (node = "END")

C3_Witness ==
    /\ node = "END"
    /\ expand_visits = 3
    /\ judge_visits = 4

\* C4: after every judge pass the next node is the expander if and only if
\* the chunks_to_expand the judge produced is non-empty; when it is empty the
\* next node is the answerer.
C4_ExpanderIffCandidates ==
    AfterJudge => ((node = "chunk_expansion_agent") <=> (chunks_to_expand # <<>>))

\* The expander's last step was the no-op on an empty chunks_to_expand
AfterNoCandidates ==
    /\ node = "context_judgement_agent"
    /\ "chunk_expansion" \in DOMAIN task_results
    /\ task_results["chunk_expansion"] = [success |-> TRUE, expanded |-> FALSE]

\* C5: an expander step with empty chunks_to_expand leaves search_results
\* unchanged, and the judge pass that follows it accepts the context
\* (context_sufficient = true), so the answerer runs next.
C5_NoCandidatesAccepted ==
    [][ /\ (node = "chunk_expansion_agent" /\ chunks_to_expand = <<>>)
            => search_results' = search_results
        /\ AfterNoCandidates
            => (context_sufficient' = "true" /\ node' = "answer_agent") ]_vars

\* C6: whenever the LLM sufficiency check fails (the call raises, or the
\* reply does not have the verdict format) the check yields
\* is_sufficient = true and no chunks to expand, and so causes no expansion
\* round.
C6_FailedCheckIsSufficient ==
    llm_check.class \in {"raise", "malformed"} =>
        /\ llm_check.is_sufficient
        /\ llm_check.chunks_to_expand = <<>>
        /\ expansion_count >= 1 => node = "answer_agent"

\* Chunks of one document at consecutive chunk_index values, in ascending
\* order
ContiguousRun(ids) ==
    /\ ids # <<>>
    /\ \A i \in DOMAIN ids : document_id(ids[i]) = document_id(ids[1])
    /\ \A i \in DOMAIN ids : chunk_index(ids[i]) = chunk_index(ids[1]) + i - 1

\* C7: after every expander step, each result marked expanded has an
\* included_chunks that is a contiguous run of one document containing the
\* pivot, and a content that is exactly those chunks' contents joined in
\* ascending chunk_index order.
C7_ExpandedContent ==
    mode = "flow" =>
      \A i \in DOMAIN search_results :
        LET r == search_results[i] IN
        r.expanded =>
            /\ ContiguousRun(r.included_chunks)
            /\ r.chunk_id \in Range(r.included_chunks)
            /\ r.content = r.included_chunks

StartsWithHeader(c) == store[c].start = "header"

\* C8 (as stated): in every expanded result an included chunk other than the
\* pivot that begins with a section header is the outermost included chunk
\* on its side of the pivot.
C8_Original ==
    \A i \in DOMAIN search_results :
      LET r == search_results[i] IN
      r.expanded =>
        \A c \in Range(r.included_chunks) :
          (c # r.chunk_id /\ StartsWithHeader(c)) =>
            \A d \in Range(r.included_chunks) :
                /\ chunk_index(c) > chunk_index(r.chunk_id)
                      => chunk_index(d) <= chunk_index(c)
                /\ chunk_index(c) < chunk_index(r.chunk_id)
                      => chunk_index(d) >= chunk_index(c)

\* C8 (amended): in every expanded result no included chunk after the pivot
\* begins with a section header (forward merging stops before such a
\* chunk); chunks before the pivot are not checked for headers.
C8_NoHeaderAfterPivot ==
    \A i \in DOMAIN search_results :
      LET r == search_results[i] IN
      r.expanded =>
        \A c \in Range(r.included_chunks) :
          chunk_index(c) > chunk_index(r.chunk_id) => ~StartsWithHeader(c)

\* an expansion that went forward and stopped in front of a header chunk
C8_Witness ==
    \E i \in DOMAIN search_results :
      LET r == search_results[i]
          last == r.included_chunks[Len(r.included_chunks)]
      IN  /\ r.expanded
          /\ last # r.chunk_id
          /\ last + 1 \in ChunkIds
          /\ document_id(last + 1) = document_id(last)
          /\ StartsWithHeader(last + 1)

\* The token count of a returned result as the expander accounts for it
ResultTokens(r) == IF r.expanded THEN r.total_tokens ELSE Tokens(r.content)

\* C9: after every expander step the token counts of the results it returns
\* sum to at most max_tokens (15,000).
C9_WithinBudget ==
    (mode = "expand" /\ expand_visits >= 1) =>
        SumSeq([i \in DOMAIN search_results |-> ResultTokens(search_results[i])])
            <= 15000

\* C10: the results the expander leaves out form a trailing suffix of its
\* input list.
C10_DropsSuffix ==
    (mode = "expand" /\ expand_visits >= 1) =>
        /\ Len(search_results) <= Len(xin)
        /\ \A i \in DOMAIN search_results :
              search_results[i].chunk_id = xin[i].chunk_id

\* ======================================================= claims C11 - C20
\* The stored neighbour of chunk c at distance k (negative: before c), or 0
Neighbour(c, k) ==
    IF \E d \in ChunkIds : document_id(d) = document_id(c)
                            /\ chunk_index(d) = chunk_index(c) + k
    THEN CHOOSE d \in ChunkIds : document_id(d) = document_id(c)
                                  /\ chunk_index(d) = chunk_index(c) + k
    ELSE 0

\* C11: while merging around a pivot a stop condition met in one direction
\* ends extension in that direction only: when the next forward candidate
\* starts a new section or does not fit, a backward candidate that fits is
\* still merged, and a backward candidate that does not fit does not prevent
\* a further forward candidate that fits.  Stated for the first result of
\* the first expander step, which has the whole budget.
C11_StopIsPerDirection ==
    (mode = "expand" /\ expand_visits = 1 /\ search_results # <<>>) =>
      LET c == xin[1].chunk_id
          r == search_results[1]
          p == Neighbour(c, -1)
          n == Neighbour(c, 1)
          n2 == Neighbour(c, 2)
          tok(d) == store[d].tok
      IN  ( /\ InExpandMap(xreq, c) /\ ExpandDirection(xreq, c) = "both"
            /\ r.chunk_id = c /\ r.expanded
            /\ p # 0 /\ n # 0 ) =>
            /\ ( /\ \/ check_new_section_start(n, <<c>>)
                    \/ tok(c) + tok(n) > EXPAND_MAX_TOKENS
                 /\ tok(c) + tok(p) <= EXPAND_MAX_TOKENS )
                  => p \in Range(r.included_chunks)
            /\ ( /\ ~check_new_section_start(n, <<c>>)
                 /\ tok(c) + tok(n) <= EXPAND_MAX_TOKENS
                 /\ tok(c) + tok(n) + tok(p) > EXPAND_MAX_TOKENS
                 /\ n2 # 0
                 /\ ~check_new_section_start(n2, <<c>>)
                 /\ tok(c) + tok(n) + tok(n2) <= EXPAND_MAX_TOKENS )
                  => n2 \in Range(r.included_chunks)

\* The task_results key an agent node writes
AgentKey(n) ==
    CASE n = "search_agent" -> "search"
      [] n = "context_judgement_agent" -> "context_judgement"
      [] n = "chunk_expansion_agent" -> "chunk_expansion"
      [] n = "answer_agent" -> "answer"
      [] OTHER -> "none"

Validated == vin.called

\* C13: every report validate returns, from its normal path and from its
\* except block, has a confidence_score in [0, 1] and is_reliable true
\* exactly when confidence_score >= 0.7.
C13_ConfidenceAndReliable ==
    Validated =>
        /\ validation.confidence_score \in 0..(10 * ONE)
        /\ validation.is_reliable <=> (validation.confidence_score >= 7 * ONE)

\* a report of the normal path whose confidence is exactly 0.7
C13_Witness ==
    /\ Validated
    /\ ~hallucination_raises(vin.reply)
    /\ validation.confidence_score = 7 * ONE
    /\ validation.is_reliable

\* The answer of the current attempt cites exactly one clause number, and
\* the clause-existence check found none of one
OneClauseNotFound ==
    /\ Validated
    /\ Cardinality(answer.clauses) = 1
    /\ validation.clause_check.score = 0

\* C14 as stated: when the answer cites exactly one clause number and it is
\* not found, confidence_score is below 0.7 and is_reliable is false.
C14_Original ==
    OneClauseNotFound =>
        /\ validation.confidence_score < 7 * ONE
        /\ ~validation.is_reliable

\* 0.4 * hallucination + 0.3 * context + 0.1 * format, in tenths of ONE
OtherAxes ==
    4 * validation.hallucination_check.score
    + 3 * validation.context_check.score
    + validation.format_check.score

\* C14: when the answer cites exactly one clause number and it is not
\* found, the clause axis adds nothing: confidence_score is the weighted sum
\* of the other three axes, at most 0.8; is_reliable is false exactly when
\* that sum is below 0.7; and the answerer goes on to a further generation
\* exactly when is_reliable is false and the attempt is not the last one.
C14_NotFoundClauseCostsItsWeight ==
    [][ (OneClauseNotFound /\ pc = "decide") =>
            /\ validation.confidence_score = OtherAxes
            /\ validation.confidence_score <= 8 * ONE
            /\ validation.is_reliable <=> (OtherAxes >= 7 * ONE)
            /\ (pc' = "generate" /\ attempt' = attempt + 1)
                  <=> (OtherAxes < 7 * ONE /\ attempt < MAX_ATTEMPTS - 1) ]_vars

\* the first attempt cites one clause that is not found, the other axes do
\* not make up for it, and the attempt is at its end: the loop goes on
C14_Witness ==
    /\ OneClauseNotFound
    /\ pc = "decide"
    /\ attempt = 0
    /\ OtherAxes < 7 * ONE
    /\ ~validation.is_reliable

\* the hallucination LLM call of the last validate call failed: the API
\* call raised, or its reply could not be parsed
HallucinationCallFailed ==
    /\ Validated
    /\ vin.reply.kind \in {"api_error", "not_json", "bad_json"}

\* C15: when the hallucination LLM call fails, only the hallucination axis
\* is the neutral 0.5: the format, context and clause axes keep the scores
\* computed for the answer, and confidence_score and is_reliable come from
\* the weighted sum.
C15_OnlyHallucinationNeutral ==
    HallucinationCallFailed =>
        /\ validation.hallucination_check.score = HALF
        /\ validation.format_check = check_format(answer, search_results)
        /\ validation.context_check
              = check_context_match(answer, search_results)
        /\ validation.clause_check
              = check_clause_existence(answer, clause_db, vin.execute)
        /\ validation.confidence_score
              = calculate_confidence(validation.hallucination_check,
                    validation.context_check, validation.clause_check,
                    validation.format_check)
        /\ validation.is_reliable <=> (validation.confidence_score >= 7 * ONE)

\* the clause-existence query of the last validate call raised for an
\* answer that cites clause numbers: the clause axis fell back to 0.5
StoreUnavailable ==
    /\ Validated
    /\ answer.clauses # {}
    /\ vin.execute = "raises"

\* the search results carry clause numbers and the answer cites none
ClauseNumbersNotCited ==
    /\ Validated
    /\ "clause_numbers_not_cited" \in format_warnings(answer, search_results)

\* C16: when the clause axis fell back to 0.5 because the chunk store was
\* unavailable, or the search results carry clause numbers and the answer
\* cites none, the warnings list of the report is not empty.
C16_DegradedHasWarning ==
    (StoreUnavailable \/ ClauseNumbersNotCited) => validation.warnings # <<>>

\* C17: a request makes at most MAX_ATTEMPTS generation calls; an attempt
\* that has been validated returns exactly when its report is reliable or
\* it is the third attempt; and the report it returns has regeneration_count
\* equal to the zero-based index of that attempt, which is below 3.
C17_ReturnsAtFirstReliable ==
    [][ /\ gen_calls' <= MAX_ATTEMPTS
        /\ pc = "decide" =>
              /\ gen_calls = attempt + 1
              /\ (pc' = "done") <=> (validation.is_reliable
                                      \/ attempt = MAX_ATTEMPTS - 1)
              /\ (pc' = "done") =>
                    /\ final_answer' = "generated"
                    /\ task_results'["answer"].success
                    /\ task_results'["answer"].validation.regeneration_count
                          = attempt
                    /\ attempt \in 0..(MAX_ATTEMPTS - 1) ]_vars

\* a request that returned the reliable answer of its second attempt
C17_Witness ==
    /\ pc = "done"
    /\ final_answer = "generated"
    /\ gen_calls = 2
    /\ task_results["answer"].validation.is_reliable
    /\ task_results["answer"].validation.regeneration_count = 1

\* a step of the loop of generate_answer in which a statement of the try
\* block raises: the generation call, or the statements between it and the
\* validate call
AttemptRaises ==
    \/ pc = "generate" /\ pc' # "open"
    \/ pc = "open" /\ pc' # "validate"

\* C18: an exception in the first or second attempt ends that attempt and
\* the loop goes on with the next one; an exception in the third attempt
\* returns the failure response with success false; and the attempts of a
\* request, failed or unreliable, never exceed 3.
C18_ExceptionConsumesAttempt ==
    [][ /\ AttemptRaises =>
              IF attempt < MAX_ATTEMPTS - 1
              THEN /\ pc' = "generate"
                   /\ attempt' = attempt + 1
                   /\ final_answer' = final_answer
              ELSE /\ pc' = "done"
                   /\ final_answer' = "failure"
                   /\ ~task_results'["answer"].success
        /\ attempt' <= MAX_ATTEMPTS - 1
        /\ gen_calls' <= MAX_ATTEMPTS ]_vars

\* a request whose third attempt raised: three generation calls, failure
C18_Witness ==
    /\ pc = "done"
    /\ final_answer = "failure"
    /\ attempt = MAX_ATTEMPTS - 1
    /\ gen_calls = MAX_ATTEMPTS
    /\ ~task_results["answer"].success

\* the positions inside a "try: ... finally: await session.close()" of the
\* search step, of the expander step and of an attempt of the answerer
InsideSession ==
    {"search_body", "search_finally", "expand_body", "expand_finally",
     "validate", "finally"}

\* C19: a database session is open only inside the try block of the step or
\* attempt that opened it: at every step boundary, between attempts and
\* when the request has ended, on a normal return as after an exception, no
\* session is open.
C19_SessionsClosed ==
    mode = "answer" => sessions = (IF pc \in InsideSession THEN 1 ELSE 0)

\* a request that has ended after three validated attempts, each with its
\* own session; in the last one the clause query raised and validate took
\* its except block
C19_Witness ==
    /\ pc = "done"
    /\ sessions = 0
    /\ gen_calls = MAX_ATTEMPTS
    /\ Validated
    /\ hallucination_raises(vin.reply)
    /\ vin.execute = "raises"

\* the clause-existence query of the last validate call ran for an answer
\* that cites clause numbers, and validate returned from its normal path
ClauseQueryRan ==
    /\ Validated
    /\ ~hallucination_raises(vin.reply)
    /\ vin.execute = "ok"
    /\ answer.clauses # {}

\* C20: the clause-existence check counts a cited clause number as found
\* only if a chunk of an active document carries it: its score is the share
\* of the cited clause numbers that occur in active documents.
C20_OnlyActiveDocumentsCount ==
    ClauseQueryRan =>
        validation.clause_check.score
           = (Cardinality({c \in answer.clauses : clause_db[c] = "active"})
                 * ONE) \div Cardinality(answer.clauses)

\* ======================================================= claims C21 - C30
\* C21: the list hybrid_search returns is in non-increasing order of
\* similarity (the RRF score) and no two of its results have the same
\* chunk_id, whatever the vector and keyword lists are.
C21_SortedAndDistinct ==
    hout.called =>
        /\ \A i, j \in DOMAIN hout.results :
              i < j => hout.results[i].similarity >= hout.results[j].similarity
        /\ \A i, j \in DOMAIN hout.results :
              i # j => hout.results[i].chunk_id # hout.results[j].chunk_id

\* overlapping lists, and a chunk of the keyword list ranked above one of
\* the vector list in the returned results
C21_Witness ==
    /\ hout.called
    /\ Range(hin.vector) \cap Range(hin.keyword) # {}
    /\ Len(hout.results) >= 2
    /\ hout.results[1].similarity > hout.results[2].similarity
    /\ hout.results[1].chunk_id # hin.vector[1]

\* the list hybrid_search hands to optimize_context: the first limit items
\* of the fused list
MergedOf(h, out) == FirstOf(out.fused, h.limit)

TokensOfItems(items) ==
    SumSeq([i \in DOMAIN items |-> Tokens(<<items[i].chunk_id>>)])

\* C22: optimize_context returns the longest prefix of its input, in the
\* input's order, whose token counts sum to at most max_tokens, and the
\* total it reports is that sum; for an empty input it reports 0.
C22_LongestPrefixWithinBudget ==
    /\ optimize_context(<<>>, hin.max_tokens).total_tokens = 0
    /\ hout.called =>
         LET merged == MergedOf(hin, hout)
             n == Len(hout.results)
         IN  /\ n <= Len(merged)
             /\ \A i \in 1..n : hout.results[i].chunk_id = merged[i].chunk_id
             /\ hout.total_tokens = TokensOfItems(hout.results)
             /\ hout.total_tokens <= hin.max_tokens
             /\ n < Len(merged) =>
                   hout.total_tokens + Tokens(<<merged[n + 1].chunk_id>>)
                       > hin.max_tokens

\* a call where the budget cut the list behind a result that fitted
C22_Witness ==
    /\ hout.called
    /\ Len(hout.results) >= 1
    /\ Len(hout.results) < Len(MergedOf(hin, hout))
    /\ hout.total_tokens > 0

\* the contribution of one list to the score of chunk_id
Contribution(results, chunk_id) ==
    IF chunk_id \in Range(results)
    THEN LET i == CHOOSE i \in DOMAIN results : results[i] = chunk_id
         IN  RRFScale \div (RRF_K + (i - 1) + 1)
    ELSE 0

\* C23: the fused score of a chunk is the sum of 1/(k + r + 1), k = 60, over
\* the lists that contain it at 0-based rank r; every chunk of either list
\* occurs exactly once in the fused list, a chunk of both lists with the
\* sum of both contributions.
C23_FusedScoreIsSumOfRanks ==
    (hout.called /\ (hin.vector # <<>> \/ hin.keyword # <<>>)) =>
        /\ {hout.fused[i].chunk_id : i \in DOMAIN hout.fused}
              = Range(hin.vector) \cup Range(hin.keyword)
        /\ Len(hout.fused)
              = Cardinality(Range(hin.vector) \cup Range(hin.keyword))
        /\ \A i \in DOMAIN hout.fused :
              hout.fused[i].score
                 = Contribution(hin.vector, hout.fused[i].chunk_id)
                   + Contribution(hin.keyword, hout.fused[i].chunk_id)

\* a chunk at different ranks of the two lists
C23_Witness ==
    /\ hout.called
    /\ \E i \in DOMAIN hin.vector, j \in DOMAIN hin.keyword :
          /\ i # j
          /\ hin.vector[i] = hin.keyword[j]
          /\ \E m \in DOMAIN hout.fused :
                /\ hout.fused[m].chunk_id = hin.vector[i]
                /\ hout.fused[m].score = RankScore(i - 1) + RankScore(j - 1)

\* C24: for disjoint vector and keyword lists, passing the lists the other
\* way round gives the same fused list: the same chunk ids with the same
\* scores in the same order.
C24_SwapKeepsFusedList ==
    (hout.called /\ Range(hin.vector) \cap Range(hin.keyword) = {}) =>
        reciprocal_rank_fusion(hin.keyword, hin.vector)
            = reciprocal_rank_fusion(hin.vector, hin.keyword)

ExactlyOneSearchRaises ==
    (hin.vector_search = "raises") # (hin.keyword_search = "raises")

\* the list of the search that did not raise
SurvivingList ==
    IF hin.vector_search = "raises" THEN hin.keyword ELSE hin.vector

\* C25: if exactly one of the two searches raises, hybrid_search does not
\* raise: the fused list is the list of the other search in its rank
\* order, each chunk with the score of its rank alone, and the results are
\* a prefix of its first limit chunks within the token budget.
C25_OneSideFailureTolerated ==
    (hout.called /\ ExactlyOneSearchRaises) =>
        /\ ~hout.raised
        /\ Len(hout.fused) = Len(SurvivingList)
        /\ \A i \in DOMAIN hout.fused :
              /\ hout.fused[i].chunk_id = SurvivingList[i]
              /\ hout.fused[i].score = RRFScale \div (RRF_K + i)
        /\ Len(hout.results) <= hin.limit
        /\ \A i \in DOMAIN hout.results :
              hout.results[i].chunk_id = SurvivingList[i]
        /\ hout.total_tokens <= hin.max_tokens

\* the vector search raised and the results come from the keyword search
C25_Witness ==
    /\ hout.called
    /\ hin.vector_search = "raises"
    /\ hin.keyword_search = "ok"
    /\ Len(hin.keyword) >= 2
    /\ Len(hout.results) >= 1
    /\ hout.results[1].chunk_id = hin.keyword[1]

\* C26: every call of hybrid_search that returns has written a search-log
\* entry of type hybrid with the number of results it returns, also when
\* both searches came back empty.
C26_HybridLogEntryWritten ==
    (hout.called /\ ~hout.raised) =>
        \E i \in DOMAIN search_log :
            /\ search_log[i].search_type = "hybrid"
            /\ search_log[i].results_count = Len(hout.results)

Classified == mode = "router" /\ intent # "none"

\* the highest of the three scores is reached by more than one category
TopScoreTied ==
    LET top == Max(scores.upload, Max(scores.manage, scores.search))
    IN  Cardinality({c \in {"upload", "manage", "search"} :
                        scores[c] = top}) > 1

\* C27 as stated: upload or manage is returned only with a score strictly
\* greater than both other scores; a tie at the top, or three zero scores,
\* gives search.
C27_Original ==
    Classified =>
        /\ intent = "upload" =>
              scores.upload > scores.manage /\ scores.upload > scores.search
        /\ intent = "manage" =>
              scores.manage > scores.upload /\ scores.manage > scores.search
        /\ TopScoreTied => intent = "search"

\* C27: classify_intent returns the first category, in the order upload,
\* manage, search, that reaches the highest score, and search when all
\* three scores are zero: upload with a positive score not below the two
\* others, manage with a score above upload's and not below search's,
\* search otherwise.
C27_FirstMaximalInOrder ==
    Classified =>
        /\ intent = "upload" <=>
              /\ scores.upload > 0
              /\ scores.upload >= scores.manage
              /\ scores.upload >= scores.search
        /\ intent = "manage" <=>
              /\ scores.manage > scores.upload
              /\ scores.manage >= scores.search
        /\ intent = "search" <=>
              \/ scores.upload = 0 /\ scores.manage = 0
              \/ scores.search > scores.upload /\ scores.search > scores.manage

\* one upload keyword and one search keyword in the query: upload
C27_Witness ==
    /\ Classified
    /\ scores.upload = scores.search
    /\ scores.upload > scores.manage
    /\ intent = "upload"

UnusableQuery == mode = "flow" /\ query \in {"empty", "incomplete"}

\* C28: in a request with an empty query, or with a query the preprocessor
\* finds incomplete, no hybrid search runs and no LLM is called (sufficiency
\* check, answer generation, hallucination check); the judge accepts the
\* empty context without expansion and the answerer returns a fixed text.
C28_NoCallsForUnusableQuery ==
    UnusableQuery =>
        /\ search_calls = 0
        /\ llm_calls = 0
        /\ answer_calls.generation = 0
        /\ answer_calls.hallucination = 0
        /\ expand_visits = 0
        /\ judge_visits >= 1 =>
              /\ judge_visits = 1
              /\ context_sufficient = "true"
              /\ chunks_to_expand = <<>>
              /\ node \in {"answer_agent", "END"}
        /\ node = "END" =>
              final_answer = (IF query = "empty" THEN "apology"
                              ELSE "no_results")

\* a finished request with an incomplete query
C28_Witness ==
    /\ UnusableQuery
    /\ query = "incomplete"
    /\ node = "END"
    /\ judge_visits = 1
    /\ final_answer = "no_results"
    /\ task_results["search"].incomplete_query

\* on the first judge pass of the request the structure pass ran and no
\* result was both incomplete and relevant
NothingToExpandOnFirstPass == first_structure.ran /\ ~first_structure.found

C30_LaterPassOneNext ==
    [][ (node = "context_judgement_agent" /\ expansion_count >= 1)
        => /\ Len(chunks_to_expand') <= 1
           /\ \A i \in DOMAIN chunks_to_expand' :
                 chunks_to_expand'[i].direction = "next" ]_vars

\* a later pass in which the LLM named two chunks and one is kept
C30_Witness ==
    /\ node = "chunk_expansion_agent"
    /\ expansion_count >= 1
    /\ Len(llm_check.chunks_to_expand) >= 2
    /\ Len(chunks_to_expand) = 1
    /\ chunks_to_expand[1].chunk_id = llm_check.chunks_to_expand[1]
    /\ chunks_to_expand[1].direction = "next"

\* ======================================================= claims C31 - C40
AgentNodes == {"router", "search_agent", "context_judgement_agent",
               "chunk_expansion_agent"}

\* C34: after every agent step the node that runs next is the one the step
\* named in next_agent; a failed expander step, which returns
\* next_agent = answer_agent, is followed by the answerer.
C34_NextAgentFollowed ==
    [][ (mode = "flow" /\ node \in AgentNodes) => node' = next_agent' ]_vars

\* the request ended after an expander step raised on results of the search
EndedAfterFailedExpansion ==
    /\ mode = "flow"
    /\ node = "END"
    /\ search_results # <<>>
    /\ "chunk_expansion" \in DOMAIN task_results
    /\ ~task_results["chunk_expansion"].success

\* C35: a request whose search gave results and whose expander step raised
\* ends with an answer generated from the results held before the failed
\* expansion, not with the error apology.
C35_AnswerAfterFailedExpansion ==
    EndedAfterFailedExpansion => final_answer # "apology"

\* the result of search_results with this chunk_id is marked expanded
MarkedExpanded(chunk_id) ==
    \E i \in DOMAIN search_results :
        /\ search_results[i].chunk_id = chunk_id
        /\ search_results[i].expanded

\* C36: a judge pass never selects a result for expansion that is already
\* marked expanded.
C36_ExpandedNotSelectedAgain ==
    (mode = "flow" /\ node = "chunk_expansion_agent") =>
        \A i \in DOMAIN chunks_to_expand :
            ~MarkedExpanded(chunks_to_expand[i].chunk_id)

\* C37: a request makes at most 3 LLM sufficiency checks, and a judge pass
\* over empty search_results, or with expansion_count at 3, makes none.
C37_AtMostThreeChecks ==
    /\ [](mode = "flow" => llm_calls <= 3)
    /\ [][ ( /\ mode = "flow"
             /\ node = "context_judgement_agent"
             /\ search_results = <<>> \/ expansion_count >= 3 )
           => llm_calls' = llm_calls ]_vars

\* a request that used all three checks and was then accepted by force
C37_Witness ==
    /\ mode = "flow"
    /\ node = "END"
    /\ llm_calls = 3
    /\ judge_visits = 4
    /\ expansion_count = 3
    /\ final_answer = "generated"

KeysOf(c) == {c[i].key : i \in DOMAIN c}

\* C39: for every max_size >= 1, a get(k) issued right after set(k, v) and
\* before the TTL has elapsed returns v: the write does not evict the entry
\* it wrote.
C39_GetAfterSet ==
    (mode = "cache" /\ last_op.op = "set"
        /\ now <= last_op.time + CACHE_TTL) =>
        MemoryCache_get(cache, last_op.key, now).value = last_op.value

\* the keys a set call removed from the cache
EvictedBySet == (KeysOf(last_op.before) \cup {last_op.key}) \ KeysOf(cache)

\* the entries the cache would hold after the insertion if none were removed
WouldHold == Cardinality(KeysOf(last_op.before) \cup {last_op.key})

\* the least recently used key at the time of the insertion
LeastRecentlyUsed ==
    LET others == Without(last_op.before, last_op.key)
    IN  IF others = <<>> THEN last_op.key ELSE others[1].key

\* C40: the cache never holds more than max_size entries; a set call
\* removes an entry only if the insertion would bring the cache above
\* max_size, and then it removes exactly the least recently used entry.
C40_EvictsOnlyAboveMaxSize ==
    mode = "cache" =>
        /\ Len(cache) <= max_size
        /\ last_op.op = "set" =>
              /\ EvictedBySet # {} => WouldHold > max_size
              /\ WouldHold > max_size => EvictedBySet = {LeastRecentlyUsed}

\* a finished single-text call whose RETRY_ATTEMPTS attempts all failed
AllAttemptsFailed(q) ==
    /\ q.op = "single"
    /\ q.texts[1] # ""
    /\ q.pc = "done"
    /\ q.attempt = RETRY_ATTEMPTS
    /\ q.new_embeddings = <<>>

\* C31: when the API fails on all 3 attempts for a non-empty text,
\* create_embedding returns the zero vector and does not raise.
C31_FailedSingleReturnsZero ==
    mode = "embed" =>
        \A r \in DOMAIN requests :
            AllAttemptsFailed(requests[r]) =>
                /\ requests[r].outcome = "returned"
                /\ requests[r].result = <<ZeroVector>>

\* the embedding a caller must get for a text
Expected(text) == IF text = "" THEN ZeroVector ELSE Embedding(text)

RightEmbeddings(q) ==
    /\ Len(q.result) = Len(q.texts)
    /\ \A i \in DOMAIN q.texts : q.result[i] = Expected(q.texts[i])

\* C32: while every API call succeeds, every call that has returned got,
\* for each of its texts, the whole embedding of that text, whatever the
\* interleaving of the cache reads and writes; the cache holds, under the
\* key of a text, the whole embedding of that text.
C32_RacesOnlyDuplicateCalls ==
    (mode = "embed" /\ api_log.failed = 0) =>
        /\ \A r \in DOMAIN requests :
              requests[r].pc = "done" =>
                  /\ requests[r].outcome = "returned"
                  /\ RightEmbeddings(requests[r])
        /\ \A i \in DOMAIN cache :
              \E t \in Texts :
                  /\ cache[i].key = get_cache_key(t)
                  /\ cache[i].value = json_dumps(Embedding(t))

\* two calls raced on one text: both missed, the API was called twice for
\* it, and both returned its embedding
C32_Witness ==
    /\ mode = "embed"
    /\ api_log.failed = 0
    /\ \E t \in Texts :
          /\ api_log.ok[t] >= 2
          /\ \A r \in 1..2 :
                /\ requests[r].pc = "done"
                /\ requests[r].attempt = 1
                /\ t \in Range(requests[r].texts)
                /\ RightEmbeddings(requests[r])

\* C38: a value in the embedding cache under the key of a text is an
\* embedding the API returned for that text, and no call is served the
\* zero vector as a cache hit.
C38_NoZeroVectorInCache ==
    mode = "embed" =>
        /\ \A i \in DOMAIN cache :
              json_loads(cache[i].value) # ZeroVector
        /\ \A r \in DOMAIN requests :
              \A i \in DOMAIN requests[r].cached :
                  requests[r].cached[i] # ZeroVector

\* C33: at any instant at most 5 embedding API calls are in flight in the
\* process, over all EmbeddingService objects, callers and retries.
C33_AtMostFiveInFlight ==
    mode = "fanout" =>
        CallersOf(in_flight["hybrid_search"])
            + CallersOf(in_flight["service_container"]) <= SEM_PERMITS
====
